---------------------------- MODULE Spec2Model ----------------------------
(***************************************************************************)
(* A model of the spaced-repetition core of the Spanish learning project:  *)
(* the FSRS memory model (state/fsrs.py), the Coach's transactional        *)
(* record_exercise (state/coach.py) and the SRS server's update_item       *)
(* (mcp_servers/srs_server/server.py).                                     *)
(*                                                                         *)
(* Numbers.  The program computes in IEEE doubles.  The model holds every  *)
(* real as an integer count of 1/K units (K = 10^4), rounding the way the  *)
(* operators below say.  Times are counts of 1/K day, so one day is K      *)
(* and elapsed_days is a plain difference of two times.                    *)
(***************************************************************************)
EXTENDS Integers, Sequences, FiniteSets, TLC

(***************************************************************************)
(* Fixed-point arithmetic                                                  *)
(***************************************************************************)

\* One unit (1.0) in fixed point; also one day of time.
K == 100 * 100

Abs(x) == IF x < 0 THEN -x ELSE x

Max(a, b) == IF a >= b THEN a ELSE b

Min(a, b) == IF a <= b THEN a ELSE b

\* a*b/K rounded to the nearest unit, for a, b >= 0, split so that no
\* intermediate leaves 32 bits.
Mul(a, b) ==
    LET ah == a \div K
        al == a % K
        bh == b \div K
        bl == b % K
    IN  ah * bh * K + ah * bl + al * bh + (al * bl + K \div 2) \div K

\* a*b for signed operands (the magnitude rounded as in Mul).
SMul(a, b) ==
    IF (a < 0) = (b < 0) THEN Mul(Abs(a), Abs(b)) ELSE -Mul(Abs(a), Abs(b))

RECURSIVE Frac(_, _, _)
\* n decimal digits of r/b for 0 <= r < b, as an integer.
Frac(r, b, n) ==
    IF n = 0 THEN 0
    ELSE LET t == r * 10
             p == IF n = 1 THEN 1 ELSE 10 * IF n = 2 THEN 1 ELSE 10 * IF n = 3 THEN 1 ELSE 10 * IF n = 4 THEN 1 ELSE 10
         IN  (t \div b) * p + Frac(t % b, b, n - 1)

\* a*K/b for a >= 0, b > 0, by long division, rounded to the nearest unit.
Div(a, b) ==
    LET r == a % b
        f == Frac(r, b, 5)
    IN  (a \div b) * K + (f + 5) \div 10

\* floor(a*b/c) with the product held exactly, for a, b >= 0 and c > 0.
MulDiv(a, b, c) == (a \div c) * b + ((a % c) * b) \div c

\* Euler's number in fixed point.
EulerE == 27183

RECURSIVE ExpSeries(_, _, _, _)
\* The Taylor series of exp(f), 0 <= f < K: sum of f^k / k! from term k on.
ExpSeries(f, term, k, n) ==
    IF k > n \/ term = 0 THEN 0
    ELSE term + ExpSeries(f, (Mul(term, f) + k \div 2) \div k, k + 1, n)

RECURSIVE PowE(_)
\* e^n for a natural n.
PowE(n) == IF n = 0 THEN K ELSE Mul(PowE(n - 1), EulerE)

\* exp(x) for x >= 0.
ExpPos(x) == Mul(PowE(x \div K), ExpSeries(x % K, K, 1, 12))

\* math.exp: exp(x) for any x; below exp(-9.2103) the value is under one unit.
Exp(x) ==
    IF x >= 0 THEN ExpPos(x)
    ELSE IF -x >= 92103 THEN 0
    ELSE Div(K, ExpPos(-x))

RECURSIVE LnSeries(_, _, _, _)
\* sum of z^k / k over odd k from k on, zk = z^k.
LnSeries(z2, zk, k, n) ==
    IF k > n \/ zk = 0 THEN 0
    ELSE (zk + k \div 2) \div k + LnSeries(z2, Mul(zk, z2), k + 2, n)

\* ln(m) for K <= m < e*K: 2 * atanh((m-1)/(m+1)).
LnUnit(m) ==
    LET z == Div(m - K, m + K)
    IN  2 * LnSeries(Mul(z, z), z, 1, 15)

RECURSIVE Ln(_)
\* math.log: ln(x) for x > 0, by reduction to [1, e).
Ln(x) ==
    IF x >= EulerE THEN K + Ln(Div(x, EulerE))
    ELSE IF x < K THEN -Ln(Div(K, x))
    ELSE LnUnit(x)

\* math.pow(x, y) for x > 0 and signed y.
Pow(x, y) == Exp(SMul(y, Ln(x)))

(***************************************************************************)
(* state/fsrs.py: the memory model                                         *)
(***************************************************************************)

\* DEFAULT_W, w[0] .. w[16], in fixed point.
DEFAULT_W ==
    << 4000, 6000, 24000, 58000, 49300, 9400, 8600, 100, 14900, 1400,
       9400, 21800, 500, 3400, 12600, 2900, 26100 >>

\* w[i] with the program's 0-based index.
W(i) == DEFAULT_W[i + 1]

\* A missing timestamp (last_review is None / NULL).
NoTime == 0 - 1

\* ReviewCard(stability, difficulty, reps, last_review).
ReviewCard(s, d, r, t) ==
    [stability |-> s, difficulty |-> d, reps |-> r, last_review |-> t]

\* A quality check that lets 6 through.
QualityUpTo6(quality) == 0 <= quality /\ quality <= 6

\* The quality check every scoring function starts with: 0 <= quality <= 5.
ValidQuality(quality) == 0 <= quality /\ quality <= 5

initial_stability(quality) ==
    IF quality = 0 THEN K \div 10
    ELSE IF quality <= 2 THEN Mul(W(0), (quality * K) \div 2)
    ELSE IF quality = 3 THEN W(2)
    ELSE W(2) + ((W(3) - W(2)) * (quality - 3)) \div 2

initial_difficulty(quality) ==
    LET difficulty == W(4) - W(10) * (quality - 3)
    IN  Max(K, Min(10 * K, difficulty))

\* ln(0.9), a negative number.
Ln09 == Ln((9 * K) \div 10)

calculate_retrievability(elapsed_days, stability) ==
    IF stability <= 0 THEN 0
    ELSE LET x == IF elapsed_days >= 0
                  THEN -Div(Mul(-Ln09, elapsed_days), stability)
                  ELSE Div(Mul(-Ln09, -elapsed_days), stability)
             retrievability == Exp(x)
         IN  Max(0, Min(K, retrievability))

\* The lapse branch of update_stability (quality < 3).
LapseStability(current_stability, difficulty, retrievability) ==
    LET new_stability ==
            Mul(Mul(Mul(W(11), Pow(difficulty, -W(12))),
                    Pow(current_stability + K, W(13)) - K),
                Exp(Mul(K - retrievability, W(14))))
    IN  Max(K \div 10, new_stability)

\* The success branch of update_stability (quality >= 3).
RecallStability(current_stability, difficulty, quality, retrievability) ==
    LET success_factor == IF quality = 3 THEN W(7)
                          ELSE IF quality = 4 THEN W(6)
                          ELSE W(5)
        growth ==
            Mul(Mul(Mul(Mul(Exp(W(15)), 11 * K - difficulty),
                        Pow(current_stability, -W(13))),
                    Exp(Mul(K - retrievability, W(14))) - K),
                success_factor)
        new_stability == Mul(current_stability, K + growth)
    IN  Max(K \div 10, new_stability)

update_stability(current_stability, difficulty, quality, retrievability) ==
    IF quality < 3
    THEN LapseStability(current_stability, difficulty, retrievability)
    ELSE RecallStability(current_stability, difficulty, quality, retrievability)

\* update_difficulty without the clamp to [1, 10].
DifficultyWithoutClamp(current_difficulty, quality) ==
    current_difficulty - W(12) * (quality - 3)

update_difficulty(current_difficulty, quality) ==
    LET difficulty_delta == W(12) * (quality - 3)
        new_difficulty == current_difficulty - difficulty_delta
    IN  Max(K, Min(10 * K, new_difficulty))

\* request_retention must lie strictly between 0 and 1.
ValidRetention(request_retention) ==
    0 < request_retention /\ request_retention < K

\* The default request_retention, 0.9.
DefaultRetention == (9 * K) \div 10

\* calculate_next_review_date without its minimum interval of one day.
NextReviewDateNoMinimum(stability, current_time, request_retention) ==
    current_time + MulDiv(stability, -Ln(request_retention), -Ln09)

\* calculate_next_review_date for a valid request_retention: the product
\* stability * ln(retention) is held exactly, as the double holds it, and
\* the timedelta is cut to the model's time unit.
calculate_next_review_date(stability, current_time, request_retention) ==
    LET interval_days == MulDiv(stability, -Ln(request_retention), -Ln09)
    IN  current_time + Max(K, interval_days)

\* review_card for a valid quality: the updated card and the ReviewResult.
ReviewOutcome(card, quality, review_time) ==
    LET first == card.reps = 0
        elapsed_days == IF card.last_review = NoTime THEN 0
                        ELSE review_time - card.last_review
        retrievability ==
            IF first THEN K
            ELSE calculate_retrievability(elapsed_days, card.stability)
        new_stability ==
            IF first THEN initial_stability(quality)
            ELSE update_stability(card.stability, card.difficulty, quality,
                                  retrievability)
        new_difficulty ==
            IF first THEN initial_difficulty(quality)
            ELSE update_difficulty(card.difficulty, quality)
        next_review ==
            calculate_next_review_date(new_stability, review_time, DefaultRetention)
    IN  [raised |-> FALSE,
         card |-> ReviewCard(new_stability, new_difficulty, card.reps + 1, review_time),
         result |-> [stability |-> new_stability,
                     difficulty |-> new_difficulty,
                     next_review_date |-> next_review,
                     retrievability |-> retrievability]]

\* What a rejected call leaves: ValueError raised, nothing computed.
Raised == [raised |-> TRUE]

\* A review_card that returns the card with its reps as they were.
ReviewKeepingReps(card, quality, review_time) ==
    IF ~ValidQuality(quality) THEN Raised
    ELSE LET out == ReviewOutcome(card, quality, review_time)
         IN  [out EXCEPT !.card.reps = card.reps]

\* review_card(card, quality, review_time, DEFAULT_W).
review_card(card, quality, review_time) ==
    IF ~ValidQuality(quality) THEN Raised
    ELSE ReviewOutcome(card, quality, review_time)

\* A card as Coach.record_exercise creates it: stability 0, difficulty 5.
NewCard == ReviewCard(0, 5 * K, 0, NoTime)

\* A card as SRSServer.update_item creates it: stability 0, difficulty 0.
NewServerCard == ReviewCard(0, 0, 0, NoTime)

(***************************************************************************)
(* State                                                                   *)
(***************************************************************************)

VARIABLES
    card,            \* memory model: the card under review
    now,             \* memory model: the current time
    call,            \* memory model: the last call, its inputs and what it returned
    ncalls,          \* memory model: review_card calls made so far
    items,           \* mastery.sqlite, table items: item_id -> row
    review_history,  \* mastery.sqlite, table review_history, in insertion order
    strand_log,      \* mastery.sqlite, the three strand tables, in insertion order
    review_items,    \* mastery.sqlite, table review_items of the SRS server
    sessions,        \* mastery.sqlite, table sessions: session_id -> row
    db_lock,         \* the process holding SQLite's write lock, or Free
    clock,           \* datetime.now(UTC)
    active_sessions, \* per process: Coach.active_sessions, session_id -> SessionInfo
    pc,              \* per process: where its current call stands
    frame,           \* per process: the arguments and locals of its current call
    txn,             \* per process: the writes of its open transaction
    ret,             \* how the last call to end ended, the store before and after
    started,         \* scoring calls begun so far
    scored,          \* per table and item: scoring calls that committed (history)
    faults,          \* statements that have raised so far
    preview_cache,   \* per process: Coach._preview_cache of the learner, or NoPreview
    session_log,     \* mastery.sqlite, table session_log, in insertion order
    succeeded        \* per session: record_exercise calls that returned (history)

fsrs_vars == << card, now, call, ncalls >>

db_vars == << items, review_history, strand_log, review_items, sessions, db_lock >>

proc_vars == << active_sessions, pc, frame, txn, ret >>

session_vars == << preview_cache, session_log, succeeded >>

store_vars == << db_vars, clock, proc_vars, started, scored, faults, session_vars >>

vars == << fsrs_vars, store_vars >>

(***************************************************************************)
(* The store and its callers: Coach.record_exercise, Coach.start_session,  *)
(* SRSServer.update_item and db_init.add_item, run by processes that share *)
(* one mastery.sqlite.                                                     *)
(***************************************************************************)

\* Operating-system processes, each with its own Coach and SRSServer.
Procs == {"p1", "p2"}

ItemIds == {"card.es.ser.001", "card.es.ser.002"}

\* str(uuid4()) values start_session may draw, in the order it draws them.
SessionIds == {"s1"}

Strands == {"meaning_input", "meaning_output", "language_focused", "fluency"}

\* The one process of sequential operation.
Sequential == {"p1"}

\* Scoring calls begun per behaviour.
MaxCalls == 2

\* Statements that raise per behaviour.
MaxFaults == 1

\* What callers score with record_exercise: item, quality, strand, and the
\* time since the previous call began.
ExerciseInputs ==
    { [item_id |-> "card.es.ser.001", quality |-> 4, strand |-> "meaning_output", wait |-> K],
      [item_id |-> "card.es.ser.001", quality |-> 1, strand |-> "language_focused", wait |-> 0],
      [item_id |-> "card.es.ser.001", quality |-> 5, strand |-> "fluency", wait |-> 30 * K],
      [item_id |-> "card.es.ser.001", quality |-> 0 - 1, strand |-> "meaning_input", wait |-> K],
      [item_id |-> "card.es.ser.002", quality |-> 3, strand |-> "meaning_input", wait |-> K],
      [item_id |-> "card.es.ser.002", quality |-> 6, strand |-> "language_focused", wait |-> K] }

\* What callers score with update_item.
ServerInputs ==
    { [item_id |-> "card.es.ser.001", quality |-> 4, wait |-> K],
      [item_id |-> "card.es.ser.001", quality |-> 0, wait |-> 0],
      [item_id |-> "card.es.ser.001", quality |-> 2, wait |-> K],
      [item_id |-> "card.es.ser.001", quality |-> 6, wait |-> K],
      [item_id |-> "", quality |-> 3, wait |-> K] }

\* What two processes score at the same time.
ConcurrentInputs ==
    { [item_id |-> "card.es.ser.001", quality |-> 4, strand |-> "meaning_output", wait |-> K],
      [item_id |-> "card.es.ser.001", quality |-> 1, strand |-> "language_focused", wait |-> 0] }

Free == "free"

Idle == "idle"

NoTxn == [open |-> FALSE]

NoFrame == [op |-> "none"]

NoRet == [op |-> "none"]

NoCall == [op |-> "none"]

\* The table a strand logs to; language_focused has none.
StrandTable(strand) ==
    IF strand = "meaning_input" THEN {"meaning_input_log"}
    ELSE IF strand = "meaning_output" THEN {"meaning_output_log"}
    ELSE IF strand = "fluency" THEN {"fluency_metrics"}
    ELSE {}

\* node_id of an item: the item_id without its last dotted part.
NodeOf(item_id) == "card.es.ser"

\* DEFAULT_MASTERY_CRITERIA.
DEFAULT_MASTERY_CRITERIA ==
    [stability_days |-> 21 * K, min_reps |-> 3, avg_quality_x2 |-> 7]

\* A row of items as the schema's defaults make it (add_item).
DefaultItemRow(item_id) ==
    [node_id |-> NodeOf(item_id), last_review |-> NoTime, stability |-> 0,
     difficulty |-> 5 * K, reps |-> 0, primary_strand |-> "none",
     mastery_status |-> "new"]

RECURSIVE SumQuality(_, _)
\* The sum of quality over the events of one item.
SumQuality(history, item_id) ==
    IF history = << >> THEN 0
    ELSE (IF Head(history).item_id = item_id THEN Head(history).quality ELSE 0)
         + SumQuality(Tail(history), item_id)

\* The review_history rows of one item.
EventsOf(history, item_id) ==
    SelectSeq(history, LAMBDA e : e.item_id = item_id)

\* _check_mastery_status keeping 'mastered' once an item has it.
MasteryNeverLost(row, history, item_id) ==
    LET n == Len(EventsOf(history, item_id))
        criteria == DEFAULT_MASTERY_CRITERIA
    IN  IF row.mastery_status = "mastered"
           \/ (/\ row.stability >= criteria.stability_days
               /\ row.reps >= criteria.min_reps
               /\ n > 0
               /\ 2 * SumQuality(history, item_id) >= criteria.avg_quality_x2 * n)
        THEN "mastered"
        ELSE IF row.reps = 0 THEN "new"
        ELSE "learning"

\* Coach._check_mastery_status: the status for a row and its review events.
CheckMastery(row, history, item_id) ==
    LET n == Len(EventsOf(history, item_id))
        criteria == DEFAULT_MASTERY_CRITERIA
        \* AVG(quality) >= 3.5, or 0 when there is no event
        avg_ok == n > 0 /\ 2 * SumQuality(history, item_id) >= criteria.avg_quality_x2 * n
    IN  IF row.stability >= criteria.stability_days
           /\ row.reps >= criteria.min_reps
           /\ avg_ok
        THEN "mastered"
        ELSE IF row.reps = 0 THEN "new"
        ELSE "learning"

\* update_mastery_status asking for an average quality above 3.5.
MasteryAboveAverage(row, history, item_id) ==
    LET n == Len(EventsOf(history, item_id))
        criteria == DEFAULT_MASTERY_CRITERIA
    IN  IF row.stability >= criteria.stability_days
           /\ row.reps >= criteria.min_reps
           /\ n > 0 /\ 2 * SumQuality(history, item_id) > criteria.avg_quality_x2 * n
        THEN "mastered"
        ELSE IF row.reps = 0 THEN "new"
        ELSE "learning"

\* session_planner.update_mastery_status: the new status for a row and its
\* review events (AVG(quality) is 0 when there is no event).
update_mastery_status(row, history, item_id) ==
    LET n == Len(EventsOf(history, item_id))
        criteria == DEFAULT_MASTERY_CRITERIA
        stability == row.stability
        reps == row.reps
    IN  IF stability >= criteria.stability_days
           /\ reps >= criteria.min_reps
           /\ n > 0 /\ 2 * SumQuality(history, item_id) >= criteria.avg_quality_x2 * n
        THEN "mastered"
        ELSE IF reps = 0 THEN "new"
        ELSE "learning"

(***************************************************************************)
(* The session planner (state/session_planner.py): strand balance, strand  *)
(* weights and the time shares of a plan.  Percentages, weights and        *)
(* minutes are kept as exact fractions: a function of numerators over one  *)
(* common denominator.                                                     *)
(***************************************************************************)

\* sum(f.values()) for a dictionary keyed by the four strands.
SumStrands(f) ==
    f["meaning_input"] + f["meaning_output"] + f["language_focused"] + f["fluency"]

\* 25% per strand.
TARGET_STRAND_PERCENTAGE == [num |-> 1, den |-> 4]

\* +-5% tolerance.
TOLERANCE_PERCENTAGE == [num |-> 1, den |-> 20]

\* The 0.10 that separates gentle from strong pressure.
ModerateImbalance == [num |-> 1, den |-> 10]

\* The seconds the rows of one strand add up to.
RECURSIVE StrandSeconds(_, _)
StrandSeconds(results, strand) ==
    IF results = << >> THEN 0
    ELSE (IF Head(results).strand = strand THEN Head(results).total_seconds ELSE 0)
         + StrandSeconds(Tail(results), strand)

\* get_strand_balance dividing by the seconds of all rows, the rows of an
\* unrecognised strand included.
BalanceOverAllRows(results) ==
    LET strand_seconds == [s \in Strands |-> StrandSeconds(results, s)]
        total_seconds == SumStrands(strand_seconds) + StrandSeconds(results, "listening")
    IN  IF total_seconds = 0
        THEN [share |-> [s \in Strands |-> 1], of |-> 4,
              total_exercises |-> 0, total_seconds |-> 0]
        ELSE [share |-> strand_seconds, of |-> total_seconds,
              total_exercises |-> Len(results), total_seconds |-> total_seconds]

\* SessionPlanner.get_strand_balance over the rows the strand_balance_recent
\* view returns: the percentage of strand s is share[s] / of.
get_strand_balance(results) ==
    LET strand_seconds == [s \in Strands |-> StrandSeconds(results, s)]
        total_seconds == SumStrands(strand_seconds)
    IN  IF total_seconds = 0
        THEN [share |-> [s \in Strands |-> 1], of |-> 4,
              total_exercises |-> 0, total_seconds |-> 0]
        ELSE [share |-> strand_seconds, of |-> total_seconds,
              total_exercises |-> Len(results), total_seconds |-> total_seconds]

\* StrandBalance.deviation_from_target: target minus the strand's share
\* (positive when under-represented).
deviation_from_target(balance, strand) ==
    [num |-> TARGET_STRAND_PERCENTAGE.num * balance.of
             - balance.share[strand] * TARGET_STRAND_PERCENTAGE.den,
     den |-> TARGET_STRAND_PERCENTAGE.den * balance.of]

\* abs(deviation) <= limit.
WithinLimit(deviation, limit) ==
    Abs(deviation.num) * limit.den <= limit.num * deviation.den

\* The weight of a strand before preferences, as a numerator over the
\* deviation's denominator: 1.0, 1.0 + 2 * deviation or 1.0 + 4 * deviation.
PressureWeight(deviation) ==
    IF WithinLimit(deviation, TOLERANCE_PERCENTAGE) THEN deviation.den
    ELSE IF WithinLimit(deviation, ModerateImbalance)
         THEN deviation.den + 2 * deviation.num
         ELSE deviation.den + 4 * deviation.num

\* A learner preference of k stands for the weight k / PrefUnit.
PrefUnit == 3

\* learner_preference = None.
NoPreference == [s \in {} |-> 0]

\* The weights before normalisation, over the denominator
\* 10 * PrefUnit * 4 * balance.of: weights[strand] * 0.7 + user_weight * 0.3
\* for a strand the preference names, the pressure weight for the others.
BlendedWeights(balance, learner_preference) ==
    [s \in Strands |->
        LET deviation == deviation_from_target(balance, s)
        IN  IF s \in DOMAIN learner_preference
            THEN 7 * PrefUnit * PressureWeight(deviation)
                 + 3 * learner_preference[s] * deviation.den
            ELSE 10 * PrefUnit * PressureWeight(deviation)]

\* calculate_strand_weights without the pressure to rebalance: every strand
\* starts from 1.0.
WeightsWithoutPressure(balance, learner_preference) ==
    [raised |-> "no", weight |-> [s \in Strands |-> 1], of |-> 1]

\* SessionPlanner.calculate_strand_weights: the weight of strand s is
\* weight[s] / of, that is (v / total) * 4.0; a total of 0 is a
\* ZeroDivisionError.
calculate_strand_weights(balance, learner_preference) ==
    LET weights == BlendedWeights(balance, learner_preference)
        total == SumStrands(weights)
    IN  IF total = 0 THEN [raised |-> "ZeroDivisionError"]
        ELSE [raised |-> "no",
              weight |-> [s \in Strands |->
                             IF total > 0 THEN 4 * weights[s] ELSE 0 - 4 * weights[s]],
              of |-> Abs(total)]

\* What plan_session reports when nothing can be practised.
NoMaterials == "No materials available for any strand"

\* The minutes one exercise of a strand is estimated to take.
ExerciseMinutes(strand) == IF strand = "meaning_input" THEN 2 ELSE 1

\* The candidates each strand is checked against (plan_session step 4).
strand_candidates(frontier, due_items, mastered) ==
    [s \in Strands |->
        IF s = "meaning_input" THEN frontier
        ELSE IF s = "meaning_output" THEN frontier \o due_items
        ELSE IF s = "language_focused" THEN due_items \o frontier
        ELSE mastered]

\* The strands with at least one candidate.
viable_strands(frontier, due_items, mastered) ==
    { s \in Strands : Len(strand_candidates(frontier, due_items, mastered)[s]) > 0 }

\* plan_session steps 4b and 5: the weights of the viable strands are
\* normalised to sum 4.0 (or set to 4.0 / len when their sum is not
\* positive), and strand s gets max(0, duration_minutes * weight / 4.0)
\* minutes, here minutes[s] / of; a strand that is not viable gets 0.
target_time_per_strand(weights, viable, duration_minutes) ==
    LET weight_sum == SumStrands([s \in Strands |->
                                     IF s \in viable THEN weights.weight[s] ELSE 0])
    IN  IF weight_sum > 0
        THEN [minutes |-> [s \in Strands |->
                              IF s \in viable
                              THEN Max(0, duration_minutes * weights.weight[s])
                              ELSE 0],
              of |-> weight_sum]
        ELSE [minutes |-> [s \in Strands |->
                              IF s \in viable THEN duration_minutes ELSE 0],
              of |-> Cardinality(viable)]

\* The candidates tagged for a strand; fluency takes its pool as it is.
TaggedFor(strand, candidates) ==
    IF strand = "fluency" THEN candidates
    ELSE SelectSeq(candidates, LAMBDA c : c.primary_strand = strand)

\* The key the selections sort by: meaning_input puts candidates without a
\* last_review first, meaning_output and language_focused put them last;
\* within each group the higher stability comes first.
PriorityKey(strand, c) ==
    << IF strand = "meaning_input"
       THEN (IF c.last_review # NoTime THEN 1 ELSE 0)
       ELSE (IF c.last_review # NoTime THEN 0 ELSE 1),
       0 - c.stability >>

\* Tuple comparison of two keys.
KeyBefore(a, b) == a[1] < b[1] \/ (a[1] = b[1] /\ a[2] < b[2])

RECURSIVE SortedByPriority(_, _)
\* list.sort(key=...) on the candidates of a strand: ascending keys, and
\* candidates with equal keys in the order they had.
SortedByPriority(strand, candidates) ==
    IF candidates = << >> THEN << >>
    ELSE LET x == candidates[Len(candidates)]
             rest == SortedByPriority(strand, SubSeq(candidates, 1, Len(candidates) - 1))
         IN  SelectSeq(rest, LAMBDA c : ~KeyBefore(PriorityKey(strand, x),
                                                   PriorityKey(strand, c)))
             \o << x >>
             \o SelectSeq(rest, LAMBDA c : KeyBefore(PriorityKey(strand, x),
                                                     PriorityKey(strand, c)))

\* The candidates of a strand in the order its selection takes them.
InPriorityOrder(strand, candidates) ==
    IF strand = "fluency" THEN candidates
    ELSE SortedByPriority(strand, TaggedFor(strand, candidates))

\* The selection loop stopping only once the time allocated is above the
\* target.
RECURSIVE SelectPastTarget(_, _, _, _)
SelectPastTarget(strand, candidates, time_allocated, target) ==
    IF candidates = << >> \/ time_allocated * target.of > target.minutes[strand]
    THEN << >>
    ELSE << [strand |-> strand, node_id |-> Head(candidates).node_id,
             item_id |-> Head(candidates).item_id,
             duration_estimate_min |-> ExerciseMinutes(strand)] >>
         \o SelectPastTarget(strand, Tail(candidates),
                             time_allocated + ExerciseMinutes(strand), target)

\* The loop of _select_meaning_input, _select_meaning_output,
\* _select_language_focused and _select_fluency: candidates are taken, in
\* priority order, until the time allocated reaches the target.
RECURSIVE SelectUpTo(_, _, _, _)
SelectUpTo(strand, candidates, time_allocated, target) ==
    IF candidates = << >> \/ time_allocated * target.of >= target.minutes[strand]
    THEN << >>
    ELSE << [strand |-> strand, node_id |-> Head(candidates).node_id,
             item_id |-> Head(candidates).item_id,
             duration_estimate_min |-> ExerciseMinutes(strand)] >>
         \o SelectUpTo(strand, Tail(candidates),
                       time_allocated + ExerciseMinutes(strand), target)

\* The exercises of one strand.
SelectFor(strand, candidates, target) ==
    SelectUpTo(strand, InPriorityOrder(strand, candidates), 0, target)

\* plan_session without the check for viable strands: with nothing to
\* practise it goes on to select and to generate the usual notes.
PlanWithoutViabilityCheck(results, learner_preference, frontier, due_items, mastered, duration_minutes) ==
    LET balance == get_strand_balance(results)
        weights == calculate_strand_weights(balance, learner_preference)
        pools == strand_candidates(frontier, due_items, mastered)
        viable == viable_strands(frontier, due_items, mastered)
        target == target_time_per_strand(weights, viable, duration_minutes)
    IN  IF weights.raised # "no" THEN [raised |-> weights.raised]
        ELSE [raised |-> "no",
              exercises |-> SelectFor("meaning_input", pools["meaning_input"], target)
                            \o SelectFor("meaning_output", pools["meaning_output"], target)
                            \o SelectFor("language_focused", pools["language_focused"], target)
                            \o SelectFor("fluency", pools["fluency"], target),
              strand_balance |-> balance,
              weights |-> weights,
              viable |-> viable,
              target_time_per_strand |-> target,
              notes |-> "Recent strand distribution:"]

\* SessionPlanner.plan_session over the view rows and the three pools the
\* catalogue returns.
plan_session(results, learner_preference, frontier, due_items, mastered, duration_minutes) ==
    LET balance == get_strand_balance(results)
        weights == calculate_strand_weights(balance, learner_preference)
        pools == strand_candidates(frontier, due_items, mastered)
        viable == viable_strands(frontier, due_items, mastered)
        target == target_time_per_strand(weights, viable, duration_minutes)
    IN  IF weights.raised # "no" THEN [raised |-> weights.raised]
        ELSE IF viable = {}
        THEN [raised |-> "no", exercises |-> << >>, strand_balance |-> balance,
              notes |-> NoMaterials]
        ELSE [raised |-> "no",
              exercises |-> SelectFor("meaning_input", pools["meaning_input"], target)
                            \o SelectFor("meaning_output", pools["meaning_output"], target)
                            \o SelectFor("language_focused", pools["language_focused"], target)
                            \o SelectFor("fluency", pools["fluency"], target),
              strand_balance |-> balance,
              weights |-> weights,
              viable |-> viable,
              target_time_per_strand |-> target,
              notes |-> "Recent strand distribution:"]

\* One row per strand, as the view groups them.
ViewRows(seconds) ==
    << [strand |-> "meaning_input", total_seconds |-> seconds["meaning_input"]],
       [strand |-> "meaning_output", total_seconds |-> seconds["meaning_output"]],
       [strand |-> "language_focused", total_seconds |-> seconds["language_focused"]],
       [strand |-> "fluency", total_seconds |-> seconds["fluency"]] >>

\* candidate.get("item_id") of a candidate that has none.
NoItem == "None"

\* A dictionary of get_frontier_nodes, as the selections read it: it has no
\* item_id, no last_review and no stability.
FrontierNode(node_id, primary_strand) ==
    [node_id |-> node_id, item_id |-> NoItem, primary_strand |-> primary_strand,
     last_review |-> NoTime, stability |-> 0]

\* A row of items as get_due_items and get_mastered_items return it.
ItemCandidate(item_id, row) ==
    [node_id |-> row.node_id, item_id |-> item_id,
     primary_strand |-> row.primary_strand,
     last_review |-> row.last_review, stability |-> row.stability]

\* The WHERE clause of get_due_items at the time of the query.
IsDue(row, at) ==
    row.last_review = NoTime \/ at - row.last_review >= row.stability

\* The lists get_due_items may return for a table of items: the rows that
\* are due, ORDER BY last_review ASC NULLS FIRST; rows with the same
\* last_review come in any order.
get_due_items(rows, at) ==
    LET due == { i \in DOMAIN rows : IsDue(rows[i], at) }
        n == Cardinality(due)
    IN  { [k \in 1 .. n |-> ItemCandidate(order[k], rows[order[k]])] :
            order \in { f \in [1 .. n -> due] :
                          /\ \A j, k \in 1 .. n : j # k => f[j] # f[k]
                          /\ \A j, k \in 1 .. n :
                                 j < k => rows[f[j]].last_review
                                              <= rows[f[k]].last_review } }

\* A row of items after reviews by record_exercise.
ReviewedRow(item_id, strand, last_review, stability, mastery_status) ==
    [DefaultItemRow(item_id) EXCEPT !.primary_strand = strand,
                                    !.last_review = last_review,
                                    !.stability = stability,
                                    !.reps = 3,
                                    !.mastery_status = mastery_status]

Topic == FrontierNode("topic.es.familia", "meaning_input")

CanDo == FrontierNode("cando.es.presentarse", "meaning_output")

Lexeme == FrontierNode("lexeme.es.ser", "language_focused")

DueCard ==
    ItemCandidate("card.es.ser.001",
                  ReviewedRow("card.es.ser.001", "language_focused", K, 2 * K, "learning"))

MasteredCard ==
    [node_id |-> "card.es.hola", item_id |-> "card.es.hola.001",
     primary_strand |-> "fluency", last_review |-> NoTime, stability |-> 25 * K]

\* The time of planning in the tables below: day 10.
PlanTime == 10 * K

\* Two cards of one node, both scored as language_focused and both due:
\* the first reviewed on day 1, the second on day 5 and the more stable.
SerCards ==
    [i \in ItemIds |->
        IF i = "card.es.ser.001"
        THEN ReviewedRow(i, "language_focused", K, 2 * K, "learning")
        ELSE ReviewedRow(i, "language_focused", 5 * K, 4 * K, "learning")]

\* Two cards scored in different strands: the first due, the second not.
MixedCards ==
    [i \in ItemIds |->
        IF i = "card.es.ser.001"
        THEN ReviewedRow(i, "meaning_output", 8 * K, K, "learning")
        ELSE ReviewedRow(i, "language_focused", 9 * K, 3 * K, "learning")]

\* The row record_exercise leaves for a new item scored as language_focused
\* with the given quality at the given time.
FirstScoredRow(item_id, quality, review_time) ==
    LET after == review_card(NewCard, quality, review_time).card
    IN  [ReviewedRow(item_id, "language_focused", after.last_review,
                     after.stability, "learning")
            EXCEPT !.difficulty = after.difficulty, !.reps = after.reps]

\* Two cards scored once: the first with quality 1 half a day before the
\* time of planning, the second with quality 4 a day before it.
LapsedCards ==
    [i \in ItemIds |->
        IF i = "card.es.ser.001"
        THEN FirstScoredRow(i, 1, PlanTime - K \div 2)
        ELSE FirstScoredRow(i, 4, PlanTime - K)]

\* Tables of items the planner may find.
ItemTables == {SerCards, MixedCards, LapsedCards}

\* What get_frontier_nodes, get_due_items and get_mastered_items return.
Catalogues ==
    { [frontier |-> << Topic, CanDo, Lexeme >>, due_items |-> due_items,
       mastered |-> << MasteredCard >>] :
          due_items \in UNION { get_due_items(rows, PlanTime) : rows \in ItemTables } }
    \cup
    { [frontier |-> << >>, due_items |-> << >>, mastered |-> << >>],
      [frontier |-> << Lexeme >>, due_items |-> << >>, mastered |-> << >>],
      [frontier |-> << Topic, CanDo, Lexeme >>, due_items |-> << DueCard >>,
       mastered |-> << MasteredCard >>],
      [frontier |-> << Topic, Topic, CanDo >>, due_items |-> << >>,
       mastered |-> << MasteredCard, MasteredCard >>],
      [frontier |-> << >>, due_items |-> << DueCard >>, mastered |-> << >>],
      [frontier |-> << >>, due_items |-> << >>, mastered |-> << MasteredCard >>] }

\* The catalogue with nothing in it.
EmptyCatalogue == [frontier |-> << >>, due_items |-> << >>, mastered |-> << >>]

\* What the view and the catalogue hold when a Coach plans: no recent
\* practice, and a catalogue that is empty or has one lexeme to learn.
NoHistory == ViewRows([s \in Strands |-> 0])

LexemeCatalogue == [frontier |-> << Lexeme >>, due_items |-> << >>, mastered |-> << >>]

CoachCatalogues == {EmptyCatalogue, LexemeCatalogue}

\* duration_minutes of start_session and preview_session (the default).
SessionMinutes == 20

\* _preview_ttl_minutes, 5 minutes, in the clock's unit (K per day).
PreviewTtl == (5 * K) \div (24 * 60)

NoPreview == [cached |-> FALSE]

\* SessionInfo as start_session builds it from a plan.
NewSessionInfo(plan) ==
    [exercises_completed |-> 0, exercises_remaining |-> Len(plan.exercises),
     exercises_planned |-> Len(plan.exercises), session_notes |-> plan.notes,
     total_quality |-> 0, mastery_changes |-> 0]

\* SessionInfo as _load_session_from_db rebuilds it: exercise_log holds no
\* row (nothing writes it), so the counts start at 0 and the plan is taken
\* to be 10 exercises.
LoadedSessionInfo ==
    [exercises_completed |-> 0, exercises_remaining |-> Max(0, 10 - 0),
     exercises_planned |-> 10, session_notes |-> "",
     total_quality |-> 0, mastery_changes |-> 0]

\* The function f with key k set to v (an upsert).
Put(f, k, v) == [x \in DOMAIN f \cup {k} |-> IF x = k THEN v ELSE f[x]]

\* The persisted tables and one process's session counters, for comparing
\* the state before and after a call.
Snapshot(p, session_id) ==
    [items |-> items, review_history |-> review_history,
     strand_log |-> strand_log, review_items |-> review_items,
     sessions |-> sessions, session_log |-> session_log,
     session |-> IF session_id \in DOMAIN active_sessions[p]
                 THEN << active_sessions[p][session_id] >> ELSE << >>]

StoreInit ==
    /\ items = << >>
    /\ review_history = << >>
    /\ strand_log = << >>
    /\ review_items = << >>
    /\ sessions = << >>
    /\ db_lock = Free
    /\ clock = 0
    /\ active_sessions = [p \in Procs |-> << >>]
    /\ pc = [p \in Procs |-> Idle]
    /\ frame = [p \in Procs |-> NoFrame]
    /\ txn = [p \in Procs |-> NoTxn]
    /\ ret = NoRet
    /\ started = 0
    /\ scored = [t \in {"items", "review_items"} |-> [i \in ItemIds |-> 0]]
    /\ faults = 0
    /\ preview_cache = [p \in Procs |-> NoPreview]
    /\ session_log = << >>
    /\ succeeded = [session_id \in SessionIds |-> 0]

\* A process may begin a call when it is in none.
MayBegin(p) ==
    /\ pc[p] = Idle
    /\ started < MaxCalls

\* The session id the next start_session draws.
NextSessionId == CHOOSE session_id \in SessionIds : session_id \notin DOMAIN sessions

\* No process is inside a call.
Quiescent == \A p \in Procs : pc[p] = Idle

\* db_init.add_item, run between calls: a row with the schema's defaults; a
\* second insert of the same item_id fails on the primary key.
AddItem(item_id) ==
    /\ Quiescent
    /\ item_id \notin DOMAIN items
    /\ db_lock = Free
    /\ items' = Put(items, item_id, DefaultItemRow(item_id))
    /\ UNCHANGED << review_history, strand_log, review_items, sessions, db_lock,
                    clock, proc_vars, started, scored, faults, fsrs_vars, session_vars >>

\* The dictionary start_session and preview_session build from a plan,
\* with the session id kept.
PlanResponseWithSessionId(plan) ==
    [session_id |-> "",
     exercises |-> plan.exercises,
     total_exercises |-> Len(plan.exercises),
     notes |-> plan.notes]

\* The dictionary preview_session builds from a plan (start_session adds
\* the session id).
PlanResponse(plan) ==
    [exercises |-> plan.exercises,
     total_exercises |-> Len(plan.exercises),
     notes |-> plan.notes]

\* The learner_id the calls of the model pass.
Learner == "learner.ana"

\* A learner who starts no session and scores nothing.
OtherLearner == "learner.ben"

\* get_due_items(learner_id) on the items table: the query has no
\* condition on the learner.
DuePoolOf(learner_id, rows, at) == get_due_items(rows, at)

\* The arguments of preview_session and start_session when the caller
\* passes none.
DefaultRequest ==
    [duration_minutes |-> SessionMinutes, learner_preference |-> NoPreference]

\* The cache check of start_session without the TTL.
CacheUsableAtAnyAge(p, duration_minutes, learner_preference) ==
    /\ preview_cache[p].cached
    /\ preview_cache[p].duration_minutes = duration_minutes
    /\ preview_cache[p].learner_preference = learner_preference

\* The entry of _preview_cache is younger than the TTL and was planned with
\* the same duration and preference.
CacheUsable(p, duration_minutes, learner_preference) ==
    /\ preview_cache[p].cached
    /\ clock - preview_cache[p].cached_time <= PreviewTtl
    /\ preview_cache[p].duration_minutes = duration_minutes
    /\ preview_cache[p].learner_preference = learner_preference

\* Coach.preview_session: a plan is made, returned and cached; no session
\* is made.
PreviewSessionWith(p, results, catalogue, request) ==
    /\ pc[p] = Idle
    /\ LET plan == plan_session(results, request.learner_preference,
                                catalogue.frontier, catalogue.due_items,
                                catalogue.mastered, request.duration_minutes)
       IN  /\ preview_cache' =
                  [preview_cache EXCEPT
                      ![p] = [cached |-> TRUE, plan |-> plan,
                              duration_minutes |-> request.duration_minutes,
                              learner_preference |-> request.learner_preference,
                              cached_time |-> clock]]
           /\ ret' = [op |-> "preview_session",
                      args |-> [catalogue |-> catalogue] @@ request,
                      raised |-> "no",
                      result |-> PlanResponse(plan),
                      pre |-> Snapshot(p, ""),
                      post |-> Snapshot(p, "")]
    /\ UNCHANGED << db_vars, clock, active_sessions, pc, frame, txn, started,
                    scored, faults, session_log, succeeded, fsrs_vars >>

\* Coach.preview_session, called with the default arguments.
PreviewSession(p, results, catalogue) ==
    PreviewSessionWith(p, results, catalogue, DefaultRequest)

\* Coach.start_session: the plan is the cached preview if it is usable,
\* else a new one; the session is kept in memory and logged to the
\* sessions table.
StartSessionWith(p, results, catalogue, request) ==
    /\ pc[p] = Idle
    /\ DOMAIN sessions # SessionIds
    /\ db_lock = Free
    /\ LET session_id == NextSessionId
           use_cache == CacheUsable(p, request.duration_minutes,
                                    request.learner_preference)
           plan == IF use_cache THEN preview_cache[p].plan
                   ELSE plan_session(results, request.learner_preference,
                                     catalogue.frontier, catalogue.due_items,
                                     catalogue.mastered, request.duration_minutes)
       IN  /\ preview_cache' = IF use_cache
                               THEN [preview_cache EXCEPT ![p] = NoPreview]
                               ELSE preview_cache
           /\ active_sessions' =
                  [active_sessions EXCEPT ![p] = Put(@, session_id, NewSessionInfo(plan))]
           /\ sessions' = Put(sessions, session_id,
                              [learner_id |-> Learner,
                               start_time |-> clock, end_time |-> NoTime,
                               exercises_completed |-> 0])
           /\ ret' = [op |-> "start_session",
                      args |-> [catalogue |-> catalogue, from_cache |-> use_cache]
                               @@ request,
                      raised |-> "no",
                      result |-> PlanResponse(plan) @@ [session_id |-> session_id],
                      pre |-> Snapshot(p, session_id),
                      post |-> [Snapshot(p, session_id) EXCEPT
                                   !.sessions = sessions',
                                   !.session = << active_sessions'[p][session_id] >>]]
    /\ UNCHANGED << items, review_history, strand_log, review_items, db_lock,
                    clock, pc, frame, txn, started, scored, faults,
                    session_log, succeeded, fsrs_vars >>

\* Coach.start_session, called with the default arguments.
StartSession(p, results, catalogue) ==
    StartSessionWith(p, results, catalogue, DefaultRequest)

\* Time passes between two calls.
Wait(dt) ==
    /\ Quiescent
    /\ clock' = clock + dt
    /\ UNCHANGED << db_vars, proc_vars, started, scored, faults, session_vars,
                    fsrs_vars >>

\* The function f without key k.
Without(f, k) == [x \in DOMAIN f \ {k} |-> f[x]]

\* Coach.end_session: the session must be in memory; its statistics are
\* written to the sessions and session_log tables, it is taken out of
\* memory and its summary returned.
EndSession(p, session_id) ==
    /\ pc[p] = Idle
    /\ db_lock = Free
    /\ IF session_id \notin DOMAIN active_sessions[p]
       THEN /\ ret' = [op |-> "end_session",
                       args |-> [session_id |-> session_id],
                       raised |-> "ValueError",
                       pre |-> Snapshot(p, session_id),
                       post |-> Snapshot(p, session_id)]
            /\ UNCHANGED << sessions, session_log, active_sessions >>
       ELSE LET session == active_sessions[p][session_id]
            IN  /\ sessions' =
                       IF session_id \in DOMAIN sessions
                       THEN [sessions EXCEPT
                                ![session_id] =
                                    [@ EXCEPT !.end_time = clock,
                                              !.exercises_completed =
                                                  session.exercises_completed]]
                       ELSE sessions
                /\ session_log' =
                       Append(session_log,
                              [session_id |-> session_id,
                               exercises_planned |-> session.exercises_planned,
                               exercises_completed |-> session.exercises_completed,
                               total_quality |-> session.total_quality,
                               mastery_changes |-> session.mastery_changes,
                               notes |-> session.session_notes])
                /\ active_sessions' = [active_sessions EXCEPT ![p] = Without(@, session_id)]
                /\ ret' = [op |-> "end_session",
                           args |-> [session_id |-> session_id],
                           raised |-> "no",
                           summary |-> [session_id |-> session_id,
                                        exercises_completed |-> session.exercises_completed,
                                        notes |-> session.session_notes],
                           pre |-> Snapshot(p, session_id),
                           post |-> [Snapshot(p, session_id) EXCEPT
                                        !.sessions = sessions',
                                        !.session_log = session_log',
                                        !.session = << >>]]
    /\ UNCHANGED << items, review_history, strand_log, review_items, db_lock,
                    clock, pc, frame, txn, started, scored, faults,
                    preview_cache, succeeded, fsrs_vars >>

\* _load_session_from_db rebuilding a session for any id, stored or not.
LoadsAnySession(session_id) == TRUE

\* _load_session_from_db finds the session's row in the sessions table.
StoredSession(session_id) == session_id \in DOMAIN sessions

\* Coach.record_exercise, up to the connect: the session is looked up in
\* memory, then loaded from the sessions table; an unknown one is a
\* ValueError.
RecordBegin(p, session_id, ex) ==
    /\ MayBegin(p)
    /\ clock' = clock + ex.wait
    /\ started' = started + 1
    /\ LET known == session_id \in DOMAIN active_sessions[p]
           stored == StoredSession(session_id)
           args == [op |-> "record_exercise", session_id |-> session_id,
                    item_id |-> ex.item_id, quality |-> ex.quality,
                    strand |-> ex.strand]
       IN  IF ~known /\ ~stored
           THEN /\ ret' =
                              [op |-> "record_exercise", args |-> args,
                               raised |-> "ValueError",
                               pre |-> Snapshot(p, session_id),
                               post |-> Snapshot(p, session_id)]
                /\ UNCHANGED << active_sessions, pc, frame >>
           ELSE /\ active_sessions' =
                       IF known THEN active_sessions
                       ELSE [active_sessions EXCEPT
                                ![p] = Put(@, session_id, LoadedSessionInfo)]
                /\ pc' = [pc EXCEPT ![p] = "select"]
                /\ frame' = [frame EXCEPT ![p] =
                                [args EXCEPT !.op = "record_exercise"]
                                @@ [pre |-> [Snapshot(p, session_id) EXCEPT
                                                !.session = << active_sessions'[p][session_id] >>]]]
                /\ ret' = NoRet
    /\ UNCHANGED << db_vars, txn, scored, faults, fsrs_vars, session_vars >>

\* record_exercise step 1: SELECT the item's row.
RecordSelect(p) ==
    /\ pc[p] = "select"
    /\ frame' = [frame EXCEPT ![p] =
                    @ @@ [row |-> IF @.item_id \in DOMAIN items
                                  THEN << items[@.item_id] >> ELSE << >>]]
    /\ pc' = [pc EXCEPT ![p] = "write"]
    /\ UNCHANGED << db_vars, clock, active_sessions, txn, ret, started, scored,
                    faults, fsrs_vars, session_vars >>

\* The card record_exercise reviews: the row it selected (a difficulty of
\* 0 or NULL read as 5.0), or a new card.
CurrentCard(row) ==
    IF row = << >> THEN NewCard
    ELSE ReviewCard(row[1].stability,
                    IF row[1].difficulty = 0 THEN 5 * K ELSE row[1].difficulty,
                    row[1].reps, row[1].last_review)

\* An upsert that leaves last_review as it was.
UpsertKeepingLastReview(item_id, old_mastery_status, strand, updated_card, review_time) ==
    LET base == IF item_id \in DOMAIN items THEN items[item_id]
                ELSE DefaultItemRow(item_id)
    IN  [base EXCEPT !.stability = updated_card.stability,
                     !.difficulty = updated_card.difficulty,
                     !.reps = updated_card.reps,
                     !.primary_strand = strand]

\* The row the INSERT ... ON CONFLICT DO UPDATE of step 3 leaves: an existing
\* row keeps its node_id and mastery_status.
UpsertedRow(item_id, old_mastery_status, strand, updated_card, review_time) ==
    LET base == IF item_id \in DOMAIN items THEN items[item_id]
                ELSE [DefaultItemRow(item_id) EXCEPT
                         !.mastery_status = old_mastery_status]
    IN  [base EXCEPT !.last_review = review_time,
                     !.stability = updated_card.stability,
                     !.difficulty = updated_card.difficulty,
                     !.reps = updated_card.reps,
                     !.primary_strand = strand]

\* The review_history row of step 4.
ReviewEvent(f, current_card, updated_card, review_time) ==
    [item_id |-> f.item_id, review_time |-> review_time, quality |-> f.quality,
     stability_before |-> current_card.stability,
     stability_after |-> updated_card.stability,
     difficulty_before |-> current_card.difficulty,
     difficulty_after |-> updated_card.difficulty,
     strand |-> f.strand]

\* _log_to_strand_table: the rows of step 5, one or none.
StrandRows(f) ==
    IF StrandTable(f.strand) = {} THEN << >>
    ELSE << [table |-> CHOOSE t \in StrandTable(f.strand) : TRUE,
             item_id |-> f.item_id, quality |-> f.quality] >>

\* Step 7: the session's progress counters after one more exercise.
Progress(session, quality, mastery_changed) ==
    [session EXCEPT !.exercises_completed = @ + 1,
                    !.exercises_remaining = @ - 1,
                    !.total_quality = @ + quality,
                    !.mastery_changes = IF mastery_changed THEN @ + 1 ELSE @]

\* record_exercise steps 3 to 7, given what review_card returned (out): the
\* writes of one transaction (it takes the write lock), the mastery check
\* and the session progress.
RecordWriteValid(p, out) ==
    LET f == frame[p]
        current_card == CurrentCard(f.row)
        old_mastery_status == IF f.row = << >> THEN "new" ELSE f.row[1].mastery_status
        upserted == UpsertedRow(f.item_id, old_mastery_status, f.strand, out.card, clock)
        event == ReviewEvent(f, current_card, out.card, clock)
        old_status == upserted.mastery_status
        new_status == CheckMastery(upserted, Append(review_history, event), f.item_id)
        mastery_changed == old_status # new_status
    IN  /\ db_lock = Free
        /\ db_lock' = p
        /\ txn' = [txn EXCEPT ![p] =
                      [open |-> TRUE, item_id |-> f.item_id,
                       row |-> [upserted EXCEPT !.mastery_status = new_status],
                       event |-> event, log |-> StrandRows(f)]]
        /\ active_sessions' =
               [active_sessions EXCEPT ![p][f.session_id] =
                   Progress(@, f.quality, mastery_changed)]
        /\ frame' = [frame EXCEPT ![p] =
                        @ @@ [result |-> [quality |-> f.quality,
                                          new_stability |-> out.card.stability,
                                          new_difficulty |-> out.card.difficulty,
                                          next_review_date |-> out.result.next_review_date,
                                          mastery_status |-> new_status,
                                          mastery_changed |-> mastery_changed]]]
        /\ pc' = [pc EXCEPT ![p] = "commit"]
        /\ UNCHANGED ret

\* How a call that raised ends: the except clause rolls the transaction
\* back, the connection is closed and RuntimeError goes to the caller.
RaiseRuntimeError(p) ==
    /\ txn' = [txn EXCEPT ![p] = NoTxn]
    /\ db_lock' = IF db_lock = p THEN Free ELSE db_lock
    /\ pc' = [pc EXCEPT ![p] = Idle]
    /\ frame' = [frame EXCEPT ![p] = NoFrame]
    /\ ret' =
                  [op |-> "record_exercise",
                   args |-> [k \in {"op", "session_id", "item_id", "quality", "strand"}
                                |-> frame[p][k]],
                   raised |-> "RuntimeError",
                   pre |-> frame[p].pre,
                   post |-> Snapshot(p, frame[p].session_id)]

\* record_exercise steps 2 to 7; review_card's ValueError for a quality
\* outside 0..5 is caught like any other exception.
RecordWrite(p) ==
    /\ pc[p] = "write"
    /\ IF ValidQuality(frame[p].quality)
       THEN RecordWriteValid(p, review_card(CurrentCard(frame[p].row),
                                            frame[p].quality, clock))
       ELSE RaiseRuntimeError(p) /\ UNCHANGED active_sessions
    /\ UNCHANGED << items, review_history, strand_log, review_items, sessions,
                    clock, started, scored, faults, fsrs_vars, session_vars >>

\* A commit that persists the item row and the strand log without the
\* review event.
CommittedWithoutEvent(t) ==
    [items |-> Put(items, t.item_id, t.row),
     review_history |-> review_history,
     strand_log |-> strand_log \o t.log]

\* The tables after conn.commit() of an open transaction t.
Committed(t) ==
    [items |-> Put(items, t.item_id, t.row),
     review_history |-> Append(review_history, t.event),
     strand_log |-> strand_log \o t.log]

\* conn.commit(): the transaction's writes become visible together.
RecordCommit(p) ==
    /\ pc[p] = "commit"
    /\ LET after == Committed(txn[p])
       IN  /\ items' = after.items
           /\ review_history' = after.review_history
           /\ strand_log' = after.strand_log
    /\ scored' = [scored EXCEPT !["items"][txn[p].item_id] = @ + 1]
    /\ txn' = [txn EXCEPT ![p] = NoTxn]
    /\ db_lock' = Free
    /\ pc' = [pc EXCEPT ![p] = "balance"]
    /\ UNCHANGED << review_items, sessions, clock, active_sessions, frame, ret,
                    started, faults, fsrs_vars, session_vars >>

\* Steps 8 and 9 and the return: the balance is read and the ExerciseResult
\* built.
RecordReturn(p) ==
    /\ pc[p] = "balance"
    /\ ret' =
                  [op |-> "record_exercise",
                   args |-> [k \in {"op", "session_id", "item_id", "quality", "strand"}
                                |-> frame[p][k]],
                   raised |-> "no", result |-> frame[p].result,
                   pre |-> frame[p].pre,
                   post |-> Snapshot(p, frame[p].session_id)]
    /\ succeeded' = [succeeded EXCEPT ![frame[p].session_id] = @ + 1]
    /\ pc' = [pc EXCEPT ![p] = Idle]
    /\ frame' = [frame EXCEPT ![p] = NoFrame]
    /\ UNCHANGED << db_vars, clock, active_sessions, txn, started, scored,
                    faults, preview_cache, session_log, fsrs_vars >>

\* A statement of record_exercise raises (sqlite3.Error: I/O, a locked
\* database, a full disk): at the SELECT, at a write, at the commit, or at
\* the balance read after it.
RecordFail(p) ==
    /\ pc[p] \in {"select", "write", "commit", "balance"}
    /\ RaiseRuntimeError(p)
    /\ faults < MaxFaults
    /\ faults' = faults + 1
    /\ UNCHANGED << items, review_history, strand_log, review_items, sessions,
                    clock, active_sessions, started, scored, fsrs_vars, session_vars >>

\* update_item's input checks, before anything is read.
ValidItemId(item_id) == item_id # ""

\* SRSServer.update_item, the input validation: a bad item_id or a quality
\* outside 0..5 returns an error document and touches nothing.
ServerBegin(p, ex) ==
    /\ MayBegin(p)
    /\ clock' = clock + ex.wait
    /\ started' = started + 1
    /\ LET args == [op |-> "update_item", item_id |-> ex.item_id,
                    quality |-> ex.quality]
           snap == Snapshot(p, "")
       IN  IF ~ValidItemId(ex.item_id) \/ ~ValidQuality(ex.quality)
           THEN /\ ret' =
                              [op |-> "update_item", args |-> args,
                               raised |-> "no",
                               error |-> IF ~ValidItemId(ex.item_id)
                                         THEN "Invalid item_id"
                                         ELSE "Invalid quality",
                               pre |-> snap, post |-> snap]
                /\ UNCHANGED << pc, frame >>
           ELSE /\ pc' = [pc EXCEPT ![p] = "server_select"]
                /\ frame' = [frame EXCEPT ![p] = args @@ [pre |-> snap]]
                /\ ret' = NoRet
    /\ UNCHANGED << db_vars, active_sessions, txn, scored, faults, fsrs_vars, session_vars >>

\* update_item: the SELECT, in a connection of its own that is closed
\* before anything is computed.
ServerSelect(p) ==
    /\ pc[p] = "server_select"
    /\ frame' = [frame EXCEPT ![p] =
                    @ @@ [row |-> IF @.item_id \in DOMAIN review_items
                                  THEN << review_items[@.item_id] >> ELSE << >>]]
    /\ pc' = [pc EXCEPT ![p] = "server_write"]
    /\ UNCHANGED << db_vars, clock, active_sessions, txn, ret, started, scored,
                    faults, fsrs_vars, session_vars >>

\* The card update_item reviews: the row it selected, or a new card.
ServerCard(row) ==
    IF row = << >> THEN NewServerCard
    ELSE ReviewCard(row[1].stability, row[1].difficulty, row[1].reps,
                    row[1].last_review)

\* The review_items row update_item stores after a review.
ServerRow(row, quality, out, review_timestamp) ==
    [learner_id |-> IF row = << >> THEN "default_learner" ELSE row[1].learner_id,
     last_review |-> review_timestamp,
     next_review |-> out.result.next_review_date,
     stability |-> out.card.stability,
     difficulty |-> out.card.difficulty,
     reps |-> out.card.reps,
     lapses |-> (IF row = << >> THEN 0 ELSE row[1].lapses)
                + (IF quality < 3 THEN 1 ELSE 0),
     state |-> 2]

\* update_item after review_card returned out: _update_srs_item's upsert
\* and commit in a second connection, and the result document.
ServerSave(p, out) ==
    /\ pc[p] = "server_write"
    /\ db_lock = Free
    /\ LET f == frame[p]
           new_row == ServerRow(f.row, f.quality, out, clock)
       IN  /\ review_items' = Put(review_items, f.item_id, new_row)
           /\ ret' =
                         [op |-> "update_item",
                          args |-> [k \in {"op", "item_id", "quality"} |-> f[k]],
                          raised |-> "no", error |-> "none",
                          result |-> [success |-> TRUE, item_id |-> f.item_id,
                                      quality |-> f.quality,
                                      reps |-> new_row.reps,
                                      next_review_date |-> new_row.next_review,
                                      days_until_next |->
                                          (new_row.next_review - clock) \div K],
                          pre |-> f.pre,
                          post |-> [Snapshot(p, "") EXCEPT !.review_items = review_items']]
           /\ scored' = [scored EXCEPT !["review_items"][f.item_id] = @ + 1]
    /\ pc' = [pc EXCEPT ![p] = Idle]
    /\ frame' = [frame EXCEPT ![p] = NoFrame]
    /\ UNCHANGED << items, review_history, strand_log, sessions, db_lock, clock,
                    active_sessions, txn, started, faults, fsrs_vars, session_vars >>

\* update_item: review_card on the selected row, then the save.
ServerWrite(p) ==
    ServerSave(p, review_card(ServerCard(frame[p].row), frame[p].quality, clock))

\* A statement of update_item raises: the handler logs it and returns the
\* "Internal error" document.
ServerFail(p) ==
    /\ pc[p] \in {"server_select", "server_write"}
    /\ ret' =
                  [op |-> "update_item",
                   args |-> [k \in {"op", "item_id", "quality"} |-> frame[p][k]],
                   raised |-> "no", error |-> "Internal error",
                   pre |-> frame[p].pre, post |-> Snapshot(p, "")]
    /\ pc' = [pc EXCEPT ![p] = Idle]
    /\ frame' = [frame EXCEPT ![p] = NoFrame]
    /\ faults < MaxFaults
    /\ faults' = faults + 1
    /\ UNCHANGED << db_vars, clock, active_sessions, txn, started, scored,
                    fsrs_vars, session_vars >>

\* A Coach process ends and a new one starts: active_sessions and
\* _preview_cache are empty again.
Restart(p) ==
    /\ pc[p] = Idle
    /\ active_sessions[p] # << >> \/ preview_cache[p] # NoPreview
    /\ active_sessions' = [active_sessions EXCEPT ![p] = << >>]
    /\ preview_cache' = [preview_cache EXCEPT ![p] = NoPreview]
    /\ UNCHANGED << db_vars, clock, pc, frame, txn, ret, started, scored, faults,
                    session_log, succeeded, fsrs_vars >>

\* One process, one call at a time.
StoreNext ==
    \/ \E item_id \in ItemIds : AddItem(item_id)
    \/ \E p \in Sequential : StartSession(p, NoHistory, LexemeCatalogue)
    \/ \E p \in Sequential : Restart(p)
    \/ \E p \in Sequential, session_id \in SessionIds, ex \in ExerciseInputs :
           RecordBegin(p, session_id, ex)
    \/ \E p \in Sequential : RecordSelect(p)
    \/ \E p \in Sequential : RecordWrite(p)
    \/ \E p \in Sequential : RecordCommit(p)
    \/ \E p \in Sequential : RecordReturn(p)
    \/ \E p \in Sequential : RecordFail(p)
    \/ \E p \in Sequential, ex \in ServerInputs : ServerBegin(p, ex)
    \/ \E p \in Sequential : ServerSelect(p)
    \/ \E p \in Sequential : ServerWrite(p)
    \/ \E p \in Sequential : ServerFail(p)

\* Two processes whose calls overlap, no statement raising.
ConcurrentNext ==
    \/ \E p \in Procs : StartSession(p, NoHistory, LexemeCatalogue)
    \/ \E p \in Procs, session_id \in SessionIds, ex \in ConcurrentInputs :
           RecordBegin(p, session_id, ex)
    \/ \E p \in Procs : RecordSelect(p)
    \/ \E p \in Procs : RecordWrite(p)
    \/ \E p \in Procs : RecordCommit(p)
    \/ \E p \in Procs : RecordReturn(p)
    \/ \E p \in Procs, ex \in ConcurrentInputs : ServerBegin(p, ex)
    \/ \E p \in Procs : ServerSelect(p)
    \/ \E p \in Procs : ServerWrite(p)

\* What callers score in a session's life.
SessionInputs ==
    { [item_id |-> "card.es.ser.001", quality |-> 4, strand |-> "meaning_output", wait |-> K] }

\* The life of a session: previewed, started, scored in, ended, by one
\* Coach at a time.
SessionNext ==
    \/ \E p \in Sequential, catalogue \in CoachCatalogues :
           PreviewSession(p, NoHistory, catalogue)
    \/ \E p \in Sequential, catalogue \in CoachCatalogues :
           StartSession(p, NoHistory, catalogue)
    \/ \E p \in Sequential, session_id \in SessionIds : EndSession(p, session_id)
    \/ \E p \in Sequential : Restart(p)
    \/ \E p \in Sequential, session_id \in SessionIds, ex \in SessionInputs :
           RecordBegin(p, session_id, ex)
    \/ \E p \in Sequential : RecordSelect(p)
    \/ \E p \in Sequential : RecordWrite(p)
    \/ \E p \in Sequential : RecordCommit(p)
    \/ \E p \in Sequential : RecordReturn(p)
    \/ \E p \in Sequential : RecordFail(p)

\* What callers ask of preview_session and start_session: the defaults,
\* a shorter session, a preference for meaning_input.
SessionRequests ==
    { DefaultRequest,
      [duration_minutes |-> 10, learner_preference |-> NoPreference],
      [duration_minutes |-> SessionMinutes,
       learner_preference |-> [s \in {"meaning_input"} |-> 6]] }

\* The times of the calls after the first: 5 minutes later, and one unit
\* after that (a unit is 8.64 seconds).
CallTimes == {PreviewTtl, PreviewTtl + 1}

\* Previews and starts of one Coach after another.
PreviewNext ==
    \/ \E p \in Sequential, catalogue \in CoachCatalogues, request \in SessionRequests :
           PreviewSessionWith(p, NoHistory, catalogue, request)
    \/ \E p \in Sequential, catalogue \in CoachCatalogues, request \in SessionRequests :
           StartSessionWith(p, NoHistory, catalogue, request)
    \/ \E t \in CallTimes : t > clock /\ Wait(t - clock)
    \/ \E p \in Sequential : Restart(p)

\* The memory-model variables while the store runs.
FsrsIdle ==
    /\ card = NewCard
    /\ now = 0
    /\ call = NoCall
    /\ ncalls = 0

\* An empty store, no Coach process inside a call.
Init == FsrsIdle /\ StoreInit

\* Sequential operation.
Spec == Init /\ [][StoreNext]_vars

\* Concurrent operation.
SpecConc == Init /\ [][ConcurrentNext]_vars

\* Sessions from preview to end.
SpecSession == Init /\ [][SessionNext]_vars

\* Previews and the sessions started after them.
SpecPreview == Init /\ [][PreviewNext]_vars

(***************************************************************************)
(* Properties of the store                                                 *)
(***************************************************************************)

\* The last call to return or raise was a record_exercise call.
Recorded == ret.op = "record_exercise"

\* The last event of review_history h.
LastEvent(h) == h[Len(h)]

\* The strand-log rows that the events of review_history h call for.
RECURSIVE LogOf(_)
LogOf(h) ==
    IF h = << >> THEN << >>
    ELSE LogOf(SubSeq(h, 1, Len(h) - 1))
         \o (IF StrandTable(LastEvent(h).strand) = {} THEN << >>
             ELSE << [table |-> CHOOSE t \in StrandTable(LastEvent(h).strand) : TRUE,
                      item_id |-> LastEvent(h).item_id,
                      quality |-> LastEvent(h).quality] >>)

\* Between pre and post none of the exercise's writes was persisted.
NoneWritten(pre, post) ==
    /\ post.items = pre.items
    /\ post.review_history = pre.review_history
    /\ post.strand_log = pre.strand_log

\* Between pre and post all of the exercise's writes were persisted: the
\* item row, its review event, its strand-log row and its mastery status.
AllWritten(args, pre, post) ==
    /\ Len(post.review_history) = Len(pre.review_history) + 1
    /\ SubSeq(post.review_history, 1, Len(pre.review_history)) = pre.review_history
    /\ LET event == LastEvent(post.review_history)
       IN  /\ event.item_id = args.item_id
           /\ event.quality = args.quality
           /\ args.item_id \in DOMAIN post.items
           /\ post.items[args.item_id].last_review = event.review_time
           /\ post.items[args.item_id].stability = event.stability_after
           /\ post.items[args.item_id].difficulty = event.difficulty_after
           /\ post.items[args.item_id].primary_strand = args.strand
           /\ post.items[args.item_id].mastery_status
                  = CheckMastery(post.items[args.item_id], post.review_history,
                                 args.item_id)
    /\ post.strand_log = pre.strand_log \o LogOf(<< LastEvent(post.review_history) >>)

\* C1. record_exercise is all-or-nothing: after a call, returned or raised,
\* either all of the exercise's writes are persisted or none is; and in
\* every state of the store each scored item has the review event of its
\* last scoring, each review event has its item, and the strand logs hold
\* exactly the rows the review events call for.
AllOrNothing ==
    /\ Recorded =>
           \/ NoneWritten(ret.pre, ret.post)
           \/ AllWritten(ret.args, ret.pre, ret.post)
    /\ \A item_id \in DOMAIN items :
           items[item_id].last_review # NoTime =>
               /\ EventsOf(review_history, item_id) # << >>
               /\ LET event == LastEvent(EventsOf(review_history, item_id))
                  IN  /\ event.review_time = items[item_id].last_review
                      /\ event.stability_after = items[item_id].stability
                      /\ event.difficulty_after = items[item_id].difficulty
    /\ \A k \in 1 .. Len(review_history) :
           /\ review_history[k].item_id \in DOMAIN items
           /\ items[review_history[k].item_id].last_review # NoTime
    /\ strand_log = LogOf(review_history)

\* A call raised after its commit: all of the exercise's writes are
\* persisted.
RaisedAfterCommit ==
    /\ Recorded
    /\ ret.raised = "RuntimeError"
    /\ AllWritten(ret.args, ret.pre, ret.post)
    /\ ret.post.strand_log # ret.pre.strand_log

\* C2. When record_exercise raises, prior state is untouched: the items,
\* the review log, the strand logs and the session's progress counters
\* have the values they had before the call.
PriorStateUntouched ==
    (Recorded /\ ret.raised # "no") => ret.post = ret.pre

\* C3. Scoring calls on one item are serialized: once the calls have
\* ended, each item's reps is the number of scoring calls that committed
\* for it, so no update is lost.
ScoringSerialized ==
    Quiescent =>
        \A item_id \in ItemIds :
            /\ item_id \in DOMAIN items =>
                   items[item_id].reps = scored["items"][item_id]
            /\ item_id \in DOMAIN review_items =>
                   review_items[item_id].reps = scored["review_items"][item_id]

UnscoredIffNew ==
    /\ \A item_id \in DOMAIN items :
           /\ items[item_id].reps = 0 <=> items[item_id].last_review = NoTime
           /\ items[item_id].last_review = NoTime <=> scored["items"][item_id] = 0
           /\ scored["items"][item_id] = 0
                  <=> EventsOf(review_history, item_id) = << >>
    /\ \A item_id \in DOMAIN review_items :
           /\ review_items[item_id].reps = 0
                  <=> review_items[item_id].last_review = NoTime
           /\ review_items[item_id].last_review = NoTime
                  <=> scored["review_items"][item_id] = 0

\* The store holds an item that was never scored beside one that was.
UnscoredBesideScored ==
    \E i, j \in DOMAIN items :
        /\ items[i].reps = 0
        /\ items[i].last_review = NoTime
        /\ items[j].reps > 0
        /\ items[j].last_review # NoTime

\* Every item's reps is the number of its review events.
RepsCountEvents ==
    \A item_id \in DOMAIN items :
        items[item_id].reps = Len(EventsOf(review_history, item_id))

\* A record_exercise call that returned added 1 to the item's reps and one
\* event to review_history.
OneMoreRep ==
    (Recorded /\ ret.raised = "no") =>
        /\ ret.post.items[ret.args.item_id].reps
               = 1 + (IF ret.args.item_id \in DOMAIN ret.pre.items
                      THEN ret.pre.items[ret.args.item_id].reps ELSE 0)
        /\ Len(ret.post.review_history) = Len(ret.pre.review_history) + 1

\* A step leaves the recorded review events as they were.
HistoryKept ==
    /\ Len(review_history') >= Len(review_history)
    /\ SubSeq(review_history', 1, Len(review_history)) = review_history

\* C6. A record_exercise call that returns adds exactly 1 to the item's
\* reps and appends exactly one review event; with the calls made one at a
\* time every item's reps is the number of its review events; and no step
\* changes or removes an event already recorded.
RepsAreEvents ==
    /\ [](RepsCountEvents /\ OneMoreRep)
    /\ [][HistoryKept]_vars

\* An item has been scored twice and has two review events.
ScoredTwice ==
    \E item_id \in DOMAIN items :
        /\ items[item_id].reps = 2
        /\ Len(EventsOf(review_history, item_id)) = 2
        /\ Len(review_history) = 2

(***************************************************************************)
(* The memory model as a state machine: a card is reviewed again and again *)
(* with any quality after any elapsed time.                                *)
(***************************************************************************)

\* review_card calls per behaviour.
MaxReviews == 1

\* Qualities a caller may pass, valid and invalid.
QualityInputs == (0 - 1) .. 6

\* Time that passes before a review: none, half a day, a day, a month.
ElapsedInputs == {0, K \div 2, K, 30 * K}

\* Target retentions a caller may pass: 0, 0.5, 0.9, 0.95, 1.0.
RetentionInputs == {0, K \div 2, DefaultRetention, (95 * K) \div 100, K}

RECURSIVE Drill(_, _, _, _, _)
\* The card after n more reviews of quality q, the first at time t and each
\* dt after the one before.
Drill(c, t, q, dt, n) ==
    LET next == review_card(c, q, t).card
    IN  IF n = 0 THEN c
        ELSE IF next.reps = c.reps + 1 THEN Drill(next, t + dt, q, dt, n - 1)
        ELSE c

\* Lengths of the review histories a card may already have.
DrillLengths == {1, 25}

\* Spacings of those earlier reviews: daily, monthly.
DrillSpacings == {K, 30 * K}

\* Cards the memory model starts from: new ones, and ones that earlier
\* reviews of a new card have produced.
InitialCards ==
    {NewCard, NewServerCard}
    \cup {Drill(NewCard, 0, q, dt, n) :
              q \in 0 .. 5, dt \in DrillSpacings, n \in DrillLengths}

FsrsInit ==
    /\ card \in InitialCards
    /\ now = Max(0, card.last_review)
    /\ call = NoCall
    /\ ncalls = 0
    /\ StoreInit

\* One review_card call, dt after the previous event; the caller keeps the
\* updated card.
Review(quality, dt) ==
    /\ ncalls < MaxReviews
    /\ LET out == review_card(card, quality, now + dt)
       IN  /\ call' = [op |-> "review_card", before |-> card, quality |-> quality,
                       review_time |-> now + dt, out |-> out]
           /\ card' = IF out.raised THEN card ELSE out.card
    /\ now' = now + dt
    /\ ncalls' = ncalls + 1
    /\ UNCHANGED store_vars

\* One calculate_next_review_date call on the card's stability.
Schedule(request_retention) ==
    /\ call' = [op |-> "calculate_next_review_date", stability |-> card.stability,
                current_time |-> now, request_retention |-> request_retention,
                out |-> IF ~ValidRetention(request_retention) THEN Raised
                        ELSE [raised |-> FALSE,
                              date |-> calculate_next_review_date(
                                           card.stability, now, request_retention)]]
    /\ UNCHANGED << card, now, ncalls, store_vars >>

FsrsNext ==
    \/ \E quality \in QualityInputs, dt \in ElapsedInputs : Review(quality, dt)
    \/ \E request_retention \in RetentionInputs : Schedule(request_retention)

SpecFsrs == FsrsInit /\ [][FsrsNext]_vars

(***************************************************************************)
(* Properties of the memory model                                          *)
(***************************************************************************)

\* The last call was a review_card call that returned.
Reviewed == call.op = "review_card" /\ ~call.out.raised

\* C7. Monotonic success: a review of quality 3, 4 or 5 returns a stability
\* no less than the card's prior stability, and a greater one when the card
\* had been reviewed before (reps > 0), whatever time has elapsed.
MonotonicSuccess ==
    (Reviewed /\ call.quality \in 3 .. 5) =>
        /\ call.out.card.stability >= call.before.stability
        /\ call.before.reps > 0 =>
               call.out.card.stability > call.before.stability

\* C8. Monotonic failure: a review of quality 0, 1 or 2 of a card with
\* reps > 0 returns a stability less than the card's prior stability and
\* not below the floor 0.1.
MonotonicFailure ==
    (Reviewed /\ call.quality \in 0 .. 2 /\ call.before.reps > 0) =>
        /\ call.out.card.stability < call.before.stability
        /\ call.out.card.stability >= K \div 10

\* C9. Interval lower bound: the next-due date a review returns is at least
\* one day after the review time and exactly max(1, new stability) days
\* after it; calculate_next_review_date with any valid target retention
\* returns a date at least one day after the current time, and with the
\* default retention max(1, stability) days after it.
IntervalLowerBound ==
    /\ Reviewed =>
           /\ call.out.result.next_review_date - call.review_time >= K
           /\ call.out.result.next_review_date - call.review_time
                  = Max(K, call.out.card.stability)
    /\ (call.op = "calculate_next_review_date" /\ ~call.out.raised) =>
           /\ call.out.date - call.current_time >= K
           /\ call.request_retention = DefaultRetention =>
                  call.out.date - call.current_time = Max(K, call.stability)

\* A review left a stability below one day and the next-due date is one
\* day after the review.
IntervalFloorReached ==
    /\ Reviewed
    /\ call.out.card.stability < K
    /\ call.out.result.next_review_date = call.review_time + K

\* C10. First review with quality 4: the stability is w[3], the value the
\* parameter table documents as the initial stability for Q=4; the
\* difficulty is below the base value w[4]; reps is 1; and the next-due
\* date is the review time plus the stability in days.
FirstReviewQuality4 ==
    (Reviewed /\ call.before.reps = 0 /\ call.quality = 4) =>
        /\ call.out.card.stability = W(3)
        /\ call.out.card.difficulty < W(4)
        /\ call.out.card.reps = 1
        /\ call.out.result.next_review_date
               = call.review_time + call.out.card.stability

\* Time between the last review of the card under review and this review.
ElapsedAtReview == call.review_time - call.before.last_review

\* C21. Surprise effect on failure: for a failed review (quality 0, 1 or 2)
\* of a card that has been reviewed before, failing after a longer time, so
\* at a lower retrievability, never yields a higher stability than failing
\* the same card with the same quality after a shorter time.
SurpriseEffectOnFailure ==
    (Reviewed /\ call.quality \in 0 .. 2 /\ call.before.reps > 0) =>
        \A dt \in ElapsedInputs :
            dt <= ElapsedAtReview =>
                review_card(call.before, call.quality,
                            call.before.last_review + dt).card.stability
                    >= call.out.card.stability

MaxSeconds == 4

\* Repetitions an item has had.
MaxReps == 4

\* Rows beside them: a second day of a strand, and a strand the planner
\* does not know.
ExtraRows ==
    { << >>,
      << [strand |-> "fluency", total_seconds |-> 2] >>,
      << [strand |-> "listening", total_seconds |-> 3] >> }

SecondsInputs == [Strands -> 0 .. MaxSeconds]

\* Learner preferences, in units of 1 / PrefUnit: none, one strand, all
\* strands, zero, negative, and a strand the planner does not know.
PreferenceInputs ==
    { NoPreference,
      [s \in {"meaning_input"} |-> 0 - 37],
      [s \in {"meaning_input"} |-> 6],
      [s \in {"fluency"} |-> 0],
      [s \in Strands |-> 3],
      [s \in {"listening"} |-> 9] }

DurationInputs == {4, 20}

\* Stabilities around the mastery threshold of 21 days.
StabilityInputs == {0, 21 * K - 1, 21 * K, 25 * K}

\* Qualities of an item's review events.
QualityHistories ==
    { << >>, << 4, 4, 4, 4 >>, << 3, 3, 3, 3 >>, << 3, 4 >>, << 5, 2, 3 >> }

\* The review events of one item with the given qualities.
HistoryOf(item_id, qualities) ==
    [i \in 1 .. Len(qualities) |-> [item_id |-> item_id, quality |-> qualities[i]]]

\* Nothing has been computed yet: each behaviour applies one function to
\* one input.
Unplanned == call.op = "none"

\* get_strand_balance over rows of the view.
Balance(seconds, extra) ==
    /\ Unplanned
    /\ call' = [op |-> "get_strand_balance",
                results |-> ViewRows(seconds) \o extra,
                out |-> get_strand_balance(ViewRows(seconds) \o extra)]
    /\ UNCHANGED << card, now, ncalls, store_vars >>

\* calculate_strand_weights for a balance and a preference.
Weights(seconds, learner_preference) ==
    /\ Unplanned
    /\ call' = [op |-> "calculate_strand_weights",
                balance |-> get_strand_balance(ViewRows(seconds)),
                learner_preference |-> learner_preference,
                out |-> calculate_strand_weights(get_strand_balance(ViewRows(seconds)),
                                                 learner_preference)]
    /\ UNCHANGED << card, now, ncalls, store_vars >>

\* plan_session for a history and a catalogue.
Plan(seconds, learner_preference, catalogue, duration_minutes) ==
    /\ Unplanned
    /\ call' = [op |-> "plan_session",
                results |-> ViewRows(seconds),
                learner_preference |-> learner_preference,
                catalogue |-> catalogue,
                duration_minutes |-> duration_minutes,
                out |-> plan_session(ViewRows(seconds), learner_preference,
                                     catalogue.frontier, catalogue.due_items,
                                     catalogue.mastered, duration_minutes)]
    /\ UNCHANGED << card, now, ncalls, store_vars >>

\* The times of a get_due_items query: the time of planning, a day later.
DueTimes == {PlanTime, PlanTime + K}

\* get_due_items on a table of items.
Due(rows, at, due_items) ==
    /\ Unplanned
    /\ call' = [op |-> "get_due_items", rows |-> rows, at |-> at,
                out |-> due_items]
    /\ UNCHANGED << card, now, ncalls, store_vars >>

\* Both mastery classifiers on one item.
Classify(stability, reps, qualities) ==
    LET item_id == "card.es.ser.001"
        row == [DefaultItemRow(item_id) EXCEPT !.stability = stability, !.reps = reps]
        history == HistoryOf(item_id, qualities)
    IN  /\ Unplanned
        /\ call' = [op |-> "update_mastery_status",
                    row |-> row,
                    qualities |-> qualities,
                    coach |-> CheckMastery(row, history, item_id),
                    planner |-> update_mastery_status(row, history, item_id)]
        /\ UNCHANGED << card, now, ncalls, store_vars >>

\* One call per behaviour, on any of the inputs.
PlanNext ==
    \/ /\ Unplanned
       /\ \E seconds \in SecondsInputs, extra \in ExtraRows : Balance(seconds, extra)
    \/ /\ Unplanned
       /\ \E seconds \in SecondsInputs, learner_preference \in PreferenceInputs :
              Weights(seconds, learner_preference)
    \/ /\ Unplanned
       /\ \E seconds \in SecondsInputs, catalogue \in Catalogues,
             duration_minutes \in DurationInputs :
              Plan(seconds, NoPreference, catalogue, duration_minutes)
    \/ /\ Unplanned
       /\ \E rows \in ItemTables, at \in DueTimes :
              \E due_items \in get_due_items(rows, at) : Due(rows, at, due_items)
    \/ /\ Unplanned
       /\ \E stability \in StabilityInputs, reps \in 0 .. MaxReps,
             qualities \in QualityHistories :
              Classify(stability, reps, qualities)

SpecPlan == Init /\ [][PlanNext]_vars

(***************************************************************************)
(* Properties of the planner and the classifiers.                          *)
(***************************************************************************)

\* The last step computed a strand balance.
Balanced == call.op = "get_strand_balance"

\* The seconds the four strands logged in the rows of the last step.
LoggedSeconds == SumStrands([s \in Strands |-> StrandSeconds(call.results, s)])

\* C11. Balance normalization: over a history with practice time the four
\* percentages sum to 1.0 and each is the strand's logged seconds divided
\* by the total; over a history with no practice time each is exactly 0.25
\* and total_seconds is 0.
BalanceNormalized ==
    Balanced =>
        IF LoggedSeconds > 0
        THEN /\ call.out.of > 0
             /\ SumStrands(call.out.share) = call.out.of
             /\ \A s \in Strands :
                    call.out.share[s] * LoggedSeconds
                        = StrandSeconds(call.results, s) * call.out.of
             /\ call.out.total_seconds = LoggedSeconds
        ELSE /\ \A s \in Strands : 4 * call.out.share[s] = call.out.of
             /\ call.out.total_seconds = 0

\* A balance over a history with time in two strands and a row of a strand
\* the planner does not know.
BalanceOfMixedHistory ==
    /\ Balanced
    /\ \E i \in 1 .. Len(call.results) :
           call.results[i].strand \notin Strands /\ call.results[i].total_seconds > 0
    /\ call.out.share["meaning_input"] > 0
    /\ call.out.share["fluency"] > 0
    /\ call.out.share["meaning_output"] = 0

\* The last step computed strand weights.
Weighed == call.op = "calculate_strand_weights"

\* C12. Weight normalization: calculate_strand_weights returns, for any
\* balance and any preference map, four weights that sum to 4.0.
WeightsSumToFour ==
    Weighed =>
        /\ call.out.raised = "no"
        /\ SumStrands(call.out.weight) = 4 * call.out.of

\* C13. Rebalancing direction: without a preference, a strand more than
\* 0.05 below the 25% target gets a weight above 1.0 and a strand more than
\* 0.05 above it gets a weight below 1.0.
RebalancingDirection ==
    Weighed /\ call.learner_preference = NoPreference =>
        /\ call.out.raised = "no"
        /\ \A s \in Strands :
               /\ 20 * call.balance.share[s] < 4 * call.balance.of
                      => call.out.weight[s] > call.out.of
               /\ 20 * call.balance.share[s] > 6 * call.balance.of
                      => call.out.weight[s] < call.out.of

\* Weights for a history that is 100% language_focused.
AllLanguageFocused ==
    /\ Weighed
    /\ call.learner_preference = NoPreference
    /\ call.balance.total_seconds > 0
    /\ call.balance.share["language_focused"] = call.balance.of
    /\ call.out.weight["language_focused"] < call.out.of
    /\ \A s \in Strands \ {"language_focused"} : call.out.weight[s] > call.out.of

\* The last step planned a session and allocated time.
Allocated ==
    /\ call.op = "plan_session"
    /\ call.out.raised = "no"
    /\ "target_time_per_strand" \in DOMAIN call.out

\* C19. The allocator partitions the budget: every strand's time share is
\* at least 0 and the shares sum to no more than the session's minutes.
SharesWithinBudget ==
    Allocated =>
        LET target == call.out.target_time_per_strand
        IN  /\ \A s \in Strands : target.minutes[s] >= 0
            /\ SumStrands(target.minutes) <= call.duration_minutes * target.of

\* C20. Strand viability: a strand is viable, and gets a positive time
\* share, only if some candidate of its pool is tagged for it, and the
\* weights of the viable strands sum to 4.0.
ViableOnlyWithMaterial ==
    Allocated =>
        LET target == call.out.target_time_per_strand
            pools == strand_candidates(call.catalogue.frontier,
                                       call.catalogue.due_items,
                                       call.catalogue.mastered)
        IN  \A s \in Strands :
                s \in call.out.viable \/ target.minutes[s] > 0
                    => \E i \in 1 .. Len(pools[s]) :
                           s = "fluency" \/ pools[s][i].primary_strand = s

\* The exercises the last plan holds for a strand.
SelectedFor(s) == SelectSeq(call.out.exercises, LAMBDA e : e.strand = s)

\* The pool the last plan_session passed to the selection of a strand.
PoolOf(s) ==
    strand_candidates(call.catalogue.frontier, call.catalogue.due_items,
                      call.catalogue.mastered)[s]

\* C23. Greedy fill: the exercises of a strand are the first candidates of
\* its priority order, each of 2 minutes for meaning_input and 1 minute for
\* the other strands; a strand with share 0 gets none; the selection goes
\* on while the minutes so far are below the share and stops once they
\* reach it, so they exceed the share by less than one exercise; and an
\* exercise of meaning_input, meaning_output or language_focused comes from
\* a candidate tagged with that strand.
GreedyFill ==
    Allocated =>
        \A s \in Strands :
            LET target == call.out.target_time_per_strand
                selected == SelectedFor(s)
                one == IF s = "meaning_input" THEN 2 ELSE 1
                order == InPriorityOrder(s, PoolOf(s))
            IN  /\ Len(selected) <= Len(order)
                /\ \A i \in 1 .. Len(selected) :
                       /\ selected[i].duration_estimate_min = one
                       /\ selected[i].node_id = order[i].node_id
                       /\ selected[i].item_id = order[i].item_id
                       /\ s # "fluency" =>
                              \E j \in 1 .. Len(PoolOf(s)) :
                                  /\ PoolOf(s)[j].node_id = selected[i].node_id
                                  /\ PoolOf(s)[j].item_id = selected[i].item_id
                                  /\ PoolOf(s)[j].primary_strand = s
                /\ target.minutes[s] = 0 => selected = << >>
                /\ selected # << >> =>
                       (Len(selected) - 1) * one * target.of < target.minutes[s]
                /\ Len(selected) * one * target.of < target.minutes[s] =>
                       Len(selected) = Len(order)

\* A selection that stopped above the share with candidates left.
StoppedAboveShare ==
    /\ Allocated
    /\ \E s \in Strands :
           /\ SelectedFor(s) # << >>
           /\ Len(SelectedFor(s)) < Len(InPriorityOrder(s, PoolOf(s)))
           /\ Len(SelectedFor(s)) * ExerciseMinutes(s)
                  * call.out.target_time_per_strand.of
                  > call.out.target_time_per_strand.minutes[s]

\* The exercise was selected from a row of get_due_items.
FromDueItem(e) ==
    \E k \in 1 .. Len(call.catalogue.due_items) :
        call.catalogue.due_items[k].item_id = e.item_id

\* last_review of the due item an exercise was selected from.
LastReviewOf(e) ==
    LET k == CHOOSE k \in 1 .. Len(call.catalogue.due_items) :
                 call.catalogue.due_items[k].item_id = e.item_id
    IN  call.catalogue.due_items[k].last_review

\* C24. Priority order for meaning_output and language_focused: in the
\* exercises of each of these strands no frontier node precedes a due item,
\* and of two due items the one reviewed longer ago comes first.
DueFirstByRecency ==
    Allocated =>
        \A s \in {"meaning_output", "language_focused"} :
            LET selected == SelectedFor(s)
            IN  \A i, j \in 1 .. Len(selected) :
                    (i < j /\ FromDueItem(selected[j])) =>
                        /\ FromDueItem(selected[i])
                        /\ LastReviewOf(selected[i]) <= LastReviewOf(selected[j])

\* C30. No duplicate work: no two exercises of a plan, of one strand or of
\* two, have the same catalogue node or the same item.
NoDuplicateWork ==
    (call.op = "plan_session" /\ call.out.raised = "no") =>
        \A i, j \in 1 .. Len(call.out.exercises) :
            i # j =>
                /\ call.out.exercises[i].node_id # call.out.exercises[j].node_id
                /\ call.out.exercises[i].item_id # NoItem =>
                       call.out.exercises[i].item_id # call.out.exercises[j].item_id

\* The next-due date review_card computed at the last review of a row.
NextDueOf(row) ==
    calculate_next_review_date(row.stability, row.last_review, DefaultRetention)

\* C29. A scored item is not due before its next-due date: an item with a
\* last review that get_due_items returns is queried at or after the
\* next-due date computed at that review, and that date is at least one
\* day after the review.
DueNotBeforeNextReview ==
    call.op = "get_due_items" =>
        \A k \in 1 .. Len(call.out) :
            call.out[k].last_review # NoTime =>
                /\ NextDueOf(call.out[k]) >= call.out[k].last_review + K
                /\ call.at >= NextDueOf(call.out[k])

\* The last step classified an item.
Classified == call.op = "update_mastery_status"

\* The average quality of the classified item is at least 3.5.
AverageAtLeast3Point5 ==
    /\ call.qualities # << >>
    /\ 2 * SumQuality(HistoryOf("card.es.ser.001", call.qualities), "card.es.ser.001")
           >= 7 * Len(call.qualities)

\* C15. Mastery classification: both classifiers return 'new' exactly when
\* reps is 0, 'mastered' exactly when stability >= 21 days, reps >= 3 and
\* the average quality >= 3.5, and 'learning' otherwise.
MasteryClassification ==
    Classified =>
        LET status == IF call.row.reps = 0 THEN "new"
                      ELSE IF /\ call.row.stability >= 21 * K
                              /\ call.row.reps >= 3
                              /\ AverageAtLeast3Point5
                           THEN "mastered"
                           ELSE "learning"
        IN  /\ call.coach = status
            /\ call.planner = status

\* An item with stability 25, 4 repetitions and average quality 4.0 is
\* classified as mastered by both.
MasteredAtAverage4 ==
    /\ Classified
    /\ call.row.stability = 25 * K
    /\ call.row.reps = 4
    /\ call.qualities = << 4, 4, 4, 4 >>
    /\ call.coach = "mastered"
    /\ call.planner = "mastered"


(***************************************************************************)
(* Properties of sessions                                                  *)
(***************************************************************************)

\* The last call to end planned over an empty catalogue.
PlannedOverNothing ==
    \/ ret.op = "preview_session" /\ ret.args.catalogue = EmptyCatalogue
    \/ /\ ret.op = "start_session"
       /\ ~ret.args.from_cache
       /\ ret.args.catalogue = EmptyCatalogue

\* The last call to end started a session on a plan without materials.
StartedWithoutMaterials ==
    /\ ret.op = "start_session"
    /\ ret.result.notes = NoMaterials

\* The last call to end was end_session, on a session that its Coach had
\* started on a plan without materials and that nothing was scored in.
EndedWithoutMaterials ==
    /\ ret.op = "end_session"
    /\ ret.pre.session # << >>
    /\ ret.pre.session[1].session_notes = NoMaterials
    /\ started = 0

\* C14. An empty catalogue is not an error: planning over empty pools gives
\* a plan with zero exercises and the no-materials note without raising;
\* start_session on such a plan creates a session; end_session on that
\* session returns and reports exercises_completed = 0.
EmptyCatalogueIsNoError ==
    /\ PlannedOverNothing =>
           /\ ret.raised = "no"
           /\ ret.result.total_exercises = 0
           /\ ret.result.exercises = << >>
           /\ ret.result.notes = NoMaterials
    /\ StartedWithoutMaterials =>
           /\ ret.raised = "no"
           /\ ret.result.session_id \in DOMAIN ret.post.sessions
           /\ ret.result.session_id \notin DOMAIN ret.pre.sessions
           /\ ret.post.session # << >>
           /\ ret.post.session[1].exercises_planned = 0
    /\ EndedWithoutMaterials =>
           /\ ret.raised = "no"
           /\ ret.summary.exercises_completed = 0

\* A session started over an empty catalogue has been ended.
EmptySessionEnded ==
    /\ EndedWithoutMaterials
    /\ ret.raised = "no"
    /\ ret.summary.exercises_completed = 0
    /\ ret.post.sessions[ret.args.session_id].end_time # NoTime

\* The last call to end was given a session id that was never started: it
\* was not in the sessions table (and so in no Coach's memory).
NeverStarted ==
    /\ ret.op \in {"record_exercise", "end_session"}
    /\ ret.args.session_id \notin DOMAIN ret.pre.sessions

\* Every session in a Coach's memory is in the sessions table.
ActiveSessionsStored ==
    \A p \in Procs : DOMAIN active_sessions[p] \subseteq DOMAIN sessions

\* A step in which a call ends with ValueError.
RaisesValueError ==
    /\ ret' # ret
    /\ ret'.op \in {"record_exercise", "end_session"}
    /\ ret'.raised = "ValueError"

\* C16. record_exercise and end_session with a session id that was never
\* started raise ValueError and make no session of it, and the step that
\* raises it changes no item, review event, strand log, session row or
\* session in memory.
UnknownSessionRejected ==
    /\ [](NeverStarted => ret.raised = "ValueError" /\ ret.post = ret.pre)
    /\ []ActiveSessionsStored
    /\ [][RaisesValueError =>
              UNCHANGED << items, review_history, strand_log, review_items,
                           sessions, session_log, active_sessions >>]_vars

\* end_session has been refused for a session id that was never started.
EndOfUnknownSessionRefused ==
    /\ NeverStarted
    /\ ret.op = "end_session"
    /\ ret.raised = "ValueError"

\* C17. The exercises_completed that end_session reports is the number of
\* record_exercise calls that returned for the session.
EndReportsSuccesses ==
    (ret.op = "end_session" /\ ret.raised = "no") =>
        ret.summary.exercises_completed = succeeded[ret.args.session_id]

\* A step in which preview_session returns.
Previews ==
    /\ ret' # ret
    /\ ret'.op = "preview_session"

\* C18. preview_session starts no session: the step leaves the active
\* sessions and every persisted table as they were, the result has no
\* session_id, and what changes is the preview cache of its Coach, which
\* then holds the returned plan.
PreviewOnlyCaches ==
    [][Previews =>
           /\ UNCHANGED << items, review_history, strand_log, review_items,
                           sessions, session_log, active_sessions,
                           clock, pc, frame, txn, started, scored, faults, succeeded >>
           /\ "session_id" \notin DOMAIN ret'.result
           /\ \A p \in Procs :
                  preview_cache'[p] # preview_cache[p] =>
                      /\ preview_cache'[p].cached
                      /\ PlanResponse(preview_cache'[p].plan) = ret'.result]_vars

\* A plan has been previewed while a session was active, and is cached.
PreviewedBesideSession ==
    /\ ret.op = "preview_session"
    /\ \E p \in Procs :
           /\ active_sessions[p] # << >>
           /\ preview_cache[p].cached
           /\ preview_cache[p].plan.exercises # << >>

\* end_session had completed for the session of the last call before the
\* call began.
EndedBefore ==
    \E k \in 1 .. Len(ret.pre.session_log) :
        ret.pre.session_log[k].session_id = ret.args.session_id

\* C27. An ended session takes no further exercise: a record_exercise or
\* end_session call for a session that end_session had completed before
\* raises ValueError and leaves every table and the session as they were.
EndedSessionRejects ==
    (ret.op \in {"record_exercise", "end_session"} /\ EndedBefore) =>
        /\ ret.raised = "ValueError"
        /\ ret.post = ret.pre

\* C28. Learner isolation: a record_exercise call in the session of one
\* learner leaves the due pool of every other learner as it was: queried
\* at the same time, the items before and after the call give that learner
\* the same due items.
LearnerIsolation ==
    (Recorded /\ ret.raised = "no") =>
        \A learner_id \in {Learner, OtherLearner} :
            learner_id # ret.post.sessions[ret.args.session_id].learner_id =>
                DuePoolOf(learner_id, ret.post.items, clock)
                    = DuePoolOf(learner_id, ret.pre.items, clock)

\* A step in which start_session returns.
Starts ==
    /\ ret' # ret
    /\ ret'.op = "start_session"

\* The plan a start_session call with the arguments of ret' makes when it
\* plans anew.
FreshPlan ==
    plan_session(NoHistory, ret'.args.learner_preference,
                 ret'.args.catalogue.frontier, ret'.args.catalogue.due_items,
                 ret'.args.catalogue.mastered, ret'.args.duration_minutes)

\* C26. Preview cache: a start_session made within 5 minutes of the
\* Coach's latest preview_session, with the same duration and the same
\* preference, starts the session with the previewed plan (the same
\* exercises in the same order) and removes the cache entry; with other
\* parameters, after more than 5 minutes or without a preview it plans
\* anew and leaves the cache as it was.
PreviewConsumedOnce ==
    [][Starts =>
           \A p \in Procs :
               active_sessions'[p] # active_sessions[p] =>
                   IF /\ preview_cache[p].cached
                      /\ clock' - preview_cache[p].cached_time <= PreviewTtl
                      /\ preview_cache[p].duration_minutes = ret'.args.duration_minutes
                      /\ preview_cache[p].learner_preference
                             = ret'.args.learner_preference
                   THEN /\ ret'.result.exercises = preview_cache[p].plan.exercises
                        /\ ret'.result.notes = preview_cache[p].plan.notes
                        /\ preview_cache'[p] = NoPreview
                   ELSE /\ ret'.result.exercises = FreshPlan.exercises
                        /\ ret'.result.notes = FreshPlan.notes
                        /\ preview_cache'[p] = preview_cache[p]]_vars

\* A session has been started, exactly 5 minutes after its preview, with
\* the previewed plan, which a new plan would not have been: the catalogue
\* has nothing any more.
StartedFromPreview ==
    /\ ret.op = "start_session"
    /\ ret.args.from_cache
    /\ ret.args.catalogue = EmptyCatalogue
    /\ ret.result.exercises # << >>
    /\ clock = PreviewTtl
    /\ \A p \in Sequential : preview_cache[p] = NoPreview

(***************************************************************************)
(* Scoring an item that has been mastered: the store starts as three       *)
(* record_exercise calls of quality 5, 30 days apart, leave it.            *)
(***************************************************************************)

\* The item of those calls.
PractisedItem == "card.es.ser.001"

\* The review_history row of one of those calls.
PractisedEvent(before, after) ==
    ReviewEvent([item_id |-> PractisedItem, quality |-> 5,
                 strand |-> "language_focused"],
                before, after, after.last_review)

\* The items row those calls leave for a card, with a mastery status.
PractisedRow(after, mastery_status) ==
    [DefaultItemRow(PractisedItem) EXCEPT
        !.last_review = after.last_review,
        !.stability = after.stability,
        !.difficulty = after.difficulty,
        !.reps = after.reps,
        !.primary_strand = "language_focused",
        !.mastery_status = mastery_status]

\* What callers score next: a failure, a success, and another item.
MasteryInputs ==
    { [item_id |-> "card.es.ser.001", quality |-> 1, strand |-> "language_focused", wait |-> 30 * K],
      [item_id |-> "card.es.ser.001", quality |-> 5, strand |-> "language_focused", wait |-> K],
      [item_id |-> "card.es.ser.002", quality |-> 4, strand |-> "meaning_output", wait |-> K] }

\* The store after the calls that made a new card c1, then c2, then c3.
PractisedStore(c1, c2, c3, history) ==
    /\ FsrsIdle
    /\ items = Put(<< >>, PractisedItem,
                   PractisedRow(c3, CheckMastery(PractisedRow(c3, "learning"),
                                                 history, PractisedItem)))
    /\ review_history = history
    /\ strand_log = << >>
    /\ review_items = << >>
    /\ sessions = [session_id \in SessionIds |->
                       [learner_id |-> Learner,
                        start_time |-> 0, end_time |-> NoTime,
                        exercises_completed |-> 0]]
    /\ db_lock = Free
    /\ clock = c3.last_review
    /\ active_sessions = [p \in Procs |-> << >>]
    /\ pc = [p \in Procs |-> Idle]
    /\ frame = [p \in Procs |-> NoFrame]
    /\ txn = [p \in Procs |-> NoTxn]
    /\ ret = NoRet
    /\ started = 0
    /\ scored = [t \in {"items", "review_items"} |->
                    [i \in ItemIds |->
                        IF t = "items" /\ i = PractisedItem THEN 3 ELSE 0]]
    /\ faults = 0
    /\ preview_cache = [p \in Procs |-> NoPreview]
    /\ session_log = << >>
    /\ succeeded = [session_id \in SessionIds |-> 3]

\* The store after three calls of quality 5, 30 days apart; their session
\* is still open in the sessions table and the Coach has restarted since.
MasteredInit ==
    \E c1 \in {review_card(NewCard, 5, 0).card} :
        \E c2 \in {review_card(c1, 5, 30 * K).card} :
            \E c3 \in {review_card(c2, 5, 60 * K).card} :
                PractisedStore(c1, c2, c3,
                               << PractisedEvent(NewCard, c1),
                                  PractisedEvent(c1, c2),
                                  PractisedEvent(c2, c3) >>)

\* record_exercise calls, one at a time.
MasteryNext ==
    \/ \E p \in Sequential, session_id \in SessionIds, ex \in MasteryInputs :
           RecordBegin(p, session_id, ex)
    \/ \E p \in Sequential : RecordSelect(p)
    \/ \E p \in Sequential : RecordWrite(p)
    \/ \E p \in Sequential : RecordCommit(p)
    \/ \E p \in Sequential : RecordReturn(p)
    \/ \E p \in Sequential : RecordFail(p)

\* Scoring after mastery.
SpecMastery == MasteredInit /\ [][MasteryNext]_vars

(***************************************************************************)
(* Properties of scoring after mastery                                     *)
(***************************************************************************)

\* The status the item of the last call had before the call.
StatusBefore ==
    IF ret.args.item_id \in DOMAIN ret.pre.items
    THEN ret.pre.items[ret.args.item_id].mastery_status
    ELSE "new"

\* C25. Mastery is recomputed on every scoring and is not monotonic: after
\* a record_exercise call that returned, the item's status is 'mastered'
\* exactly when its stability is at least 21 days, its reps at least 3 and
\* the average quality of its reviews at least 3.5, whatever it was before
\* (so a mastered item that fails them is 'learning' again), and
\* mastery_changed tells whether the status differs from the one before.
MasteryRecomputed ==
    (Recorded /\ ret.raised = "no") =>
        LET i == ret.args.item_id
            row == ret.post.items[i]
            n == Len(EventsOf(ret.post.review_history, i))
            meets == /\ row.stability >= 21 * K
                     /\ row.reps >= 3
                     /\ n > 0
                     /\ 2 * SumQuality(ret.post.review_history, i) >= 7 * n
        IN  /\ row.mastery_status =
                   IF meets THEN "mastered"
                   ELSE IF row.reps = 0 THEN "new"
                   ELSE "learning"
            /\ ret.result.mastery_status = row.mastery_status
            /\ ret.result.mastery_changed = (StatusBefore # row.mastery_status)

\* A record_exercise call after which a mastered item is 'learning' again
\* and which reports mastery_changed.
MasteredItemDemoted ==
    /\ Recorded
    /\ ret.raised = "no"
    /\ StatusBefore = "mastered"
    /\ ret.post.items[ret.args.item_id].mastery_status = "learning"
    /\ ret.result.mastery_changed

====
